---- MODULE Spec2Model ----
(***************************************************************************)
(* Client orchestration layer of the options-analytics dashboard:          *)
(*   State            (state.js)      the reactive store                   *)
(*   App              (app.js)        topbar controls, catalog refresh,    *)
(*                                    snapshot load, live fetch            *)
(*   DashboardPage    (dashboard.js)  render pass and analysis navigation  *)
(*   Charts           (charts.js)     chart fetch and draw                 *)
(* The program is single-threaded and event-driven: a handler runs to its  *)
(* next await, and every pending network request is a task whose response  *)
(* is delivered by one action that runs the continuation to its next       *)
(* await (or to its end).                                                  *)
(***************************************************************************)
EXTENDS Integers, Sequences, FiniteSets, TLC

VARIABLES
    selectedIndex,      \* State._state.selectedIndex
    indexData,          \* State._state.indexData
    selectedBucket,     \* State._state.selectedBucket   (absent at start)
    selectedCategory,   \* State._state.selectedCategory (absent at start)
    selectedSubChart,   \* State._state.selectedSubChart (absent at start)
    gammaChartMode,     \* State._state.gammaChartMode   (absent at start)
    compareMode,        \* State._state.compareMode      (absent = falsy at start)
    isFetching,         \* App._isFetching
    wired,              \* App._wireControls has run
    expirySel,          \* <select id="select-expiry">: [opts, idx]
    fileSel,            \* <select id="select-file">:   [opts, idx]
    fileSel2,           \* <select id="select-file-2">: [opts, idx]
    fileSel2Shown,      \* fileSel2.style.display = 'block'
    page,               \* #page-content as written by DashboardPage.render
    tasks,              \* pending network requests, in the order they were issued
    clicks,             \* history: the number of user interactions so far
    domIndex,           \* history: the index whose catalog filled the dropdowns
    last,               \* history: the handler that ran last, with its inputs
    listeners,          \* State._listeners, in insertion order
    closures,           \* the closures State.subscribe has returned so far
    loadedCharts,       \* DashboardPage._loadedCharts
    requested,          \* history: chart requests per container id since the
                        \* last full re-render
    snapshot            \* an object that State.get() has returned to a client

vars == <<selectedIndex, indexData, selectedBucket, selectedCategory,
          selectedSubChart, gammaChartMode, compareMode, isFetching, wired,
          expirySel, fileSel, fileSel2, fileSel2Shown, page, tasks, clicks, domIndex,
          last, listeners, closures, loadedCharts, requested, snapshot>>

storeNav == <<selectedBucket, selectedCategory, selectedSubChart, gammaChartMode>>
topbarDom == <<expirySel, fileSel, fileSel2, fileSel2Shown, domIndex>>
subscriptions == <<listeners, closures>>
chartLoads == <<loadedCharts, requested>>

----------------------------------------------------------------------------
(* Bounds of the model *)

MaxInFlight == 2

MaxClicks == 2

MaxNavClicks == 3

MaxClosures == 2

----------------------------------------------------------------------------
(* JavaScript values *)

Undefined == "undefined"
Null == "null"
None == "-"

Falsy(x) == x \in {"", Undefined, Null}

OrElse(a, b) == IF Falsy(a) THEN b ELSE a

----------------------------------------------------------------------------
(* state.js *)

Indices == <<"Nifty", "BankNifty", "Sensex">>

IndexSet == {Indices[k] : k \in 1..Len(Indices)}

InitialIndexData ==
    [i \in IndexSet |->
        [hasData |-> FALSE, loadedFile |-> "", expiry |-> "",
         selectedExpiry |-> "", selectedFile |-> "", selectedFile2 |-> Undefined]]

\* index || _state.selectedIndex
Target(index) == OrElse(index, selectedIndex)

\* the record getIndexData returns for an index that indexData does not hold
FallbackRecord == [hasData |-> FALSE, loadedFile |-> "", expiry |-> ""]

\* _state.indexData[target] || { hasData: false, loadedFile: '', expiry: '' }
getIndexData(index) ==
    IF Target(index) \in DOMAIN indexData THEN indexData[Target(index)]
    ELSE FallbackRecord

\* { ...record, ...data }; the spread of undefined contributes no field
Spread(record, data) ==
    [f \in (DOMAIN record) \cup (DOMAIN data) |->
        IF f \in DOMAIN data THEN data[f] ELSE record[f]]

\* The merge applied to the record of the index selected now, not to `index`.
setIndexDataOfSelected(index, data) ==
    [indexData EXCEPT ![selectedIndex] =
        [f \in DOMAIN indexData[selectedIndex] |->
            IF f \in DOMAIN data THEN data[f] ELSE indexData[selectedIndex][f]]]

\* The record of the target replaced by data, not merged with it.
setIndexDataReplaced(index, data) ==
    [i \in (DOMAIN indexData) \cup {Target(index)} |->
        IF i = Target(index) THEN data ELSE indexData[i]]

\* indexData rebuilt with the record of the target alone.
setIndexDataAlone(index, data) ==
    LET target == Target(index)
        record == IF target \in DOMAIN indexData THEN indexData[target] ELSE << >>
    IN  [i \in {target} |-> Spread(record, data)]

\* indexData: { ..._state.indexData, [target]: { ..._state.indexData[target], ...data } }
setIndexData(index, data) ==
    LET target == Target(index)
        record == IF target \in DOMAIN indexData THEN indexData[target] ELSE << >>
    IN  [i \in (DOMAIN indexData) \cup {target} |->
            IF i = target THEN Spread(record, data) ELSE indexData[i]]

\* The _state object: what get() copies and what a subscriber is called with.
StoreState ==
    [selectedIndex |-> selectedIndex, indexData |-> indexData,
     selectedBucket |-> selectedBucket, selectedCategory |-> selectedCategory,
     selectedSubChart |-> selectedSubChart, gammaChartMode |-> gammaChartMode,
     compareMode |-> compareMode]

\* { ..._state, ...patch }
Merge(state, patch) ==
    [key \in DOMAIN state |-> IF key \in DOMAIN patch THEN patch[key] ELSE state[key]]

\* An object returned by get(): the copy { ..._state } holds the top-level
\* values of that moment and a reference to the indexData object of the
\* store, which holds references to the records.  `top` is the copy,
\* `sharesIndexData` and `sharesRecords` say which of these objects the store
\* still holds, `frozen` is the content of those it has let go, and
\* `original` is history: the state when get() returned.
NoSnapshot ==
    [taken |-> FALSE, top |-> << >>, frozen |-> << >>, sharesIndexData |-> FALSE,
     sharesRecords |-> {}, original |-> << >>]

\* What a client reads through the snapshot now
View(snap) ==
    [snap.top EXCEPT !.indexData =
        IF snap.sharesIndexData THEN indexData
        ELSE [i \in DOMAIN snap.frozen |->
                 IF i \in snap.sharesRecords THEN indexData[i] ELSE snap.frozen[i]]]

\* The store writes into the objects it holds and keeps sharing them.
StillShared(snap, target) == snap

\* setIndexData assigns new objects to _state, to its indexData and to the
\* record of the target: the store lets go of the old ones, which keep
\* their content.
Detached(snap, target) ==
    IF ~snap.taken THEN snap
    ELSE [snap EXCEPT !.frozen = View(snap).indexData,
                      !.sharesIndexData = FALSE,
                      !.sharesRecords = @ \ {target}]

\* The functions a client registers; Throwing are those that throw when called.
Subscribers == {"f", "g", "h"}

Throwing == {"h"}

\* _listeners.add(fn): a Set holds fn once, at the place of its first insertion
Add(ls, fn) == IF \E k \in 1..Len(ls) : ls[k] = fn THEN ls ELSE Append(ls, fn)

\* _listeners.delete(fn)
Delete(ls, fn) == SelectSeq(ls, LAMBDA x : x # fn)

\* The subscribers called from the last inserted one to the first.
RECURSIVE ForEachReversed(_)
ForEachReversed(ls) ==
    IF ls = << >> THEN << >>
    ELSE IF ls[Len(ls)] \in Throwing THEN <<ls[Len(ls)]>>
    ELSE <<ls[Len(ls)]>> \o ForEachReversed(SubSeq(ls, 1, Len(ls) - 1))

\* _listeners.forEach(fn => fn(_state)): the functions called, in insertion
\* order; the exception of one that throws ends the iteration and leaves
\* forEach and its caller.
RECURSIVE ForEach(_)
ForEach(ls) ==
    IF ls = << >> THEN << >>
    ELSE IF Head(ls) \in Throwing THEN <<Head(ls)>>
    ELSE <<Head(ls)>> \o ForEach(Tail(ls))

Threw(called) == called # << >> /\ called[Len(called)] \in Throwing

----------------------------------------------------------------------------
(* The file-listing endpoint: GET /api/files/{index}.  A catalog is the    *)
(* JSON object {expiry: [filename, ...]} as the sequence of its entries.   *)

CatalogsOf(index) ==
    CASE index = "Nifty" ->
            { << <<"2024-01-25", <<"t1", "t2">> >>, <<"2024-02-01", <<"t3">> >> >>,
              << <<"2024-02-01", <<"t3">> >> >>,
              << >> }
      [] index = "BankNifty" ->
            { << <<"2024-01-31", <<"b1", "b2">> >> >>,
              << <<"2024-01-31", << >> >> >> }
      [] OTHER -> { << >> }

\* The expiry strings of the model in ascending order of their UTF-16 code
\* units, the order of Array.prototype.sort without a comparator.
ExpiryOrder == <<"2024-01-25", "2024-01-31", "2024-02-01">>

LexRank(s) == CHOOSE k \in 1..Len(ExpiryOrder) : ExpiryOrder[k] = s

LexLess(a, b) == LexRank(a) < LexRank(b)

RECURSIVE Insert(_, _)
Insert(x, sorted) ==
    IF sorted = << >> THEN <<x>>
    ELSE IF LexLess(x, Head(sorted)) THEN <<x>> \o sorted
    ELSE <<Head(sorted)>> \o Insert(x, Tail(sorted))

RECURSIVE Sort(_)
Sort(s) == IF s = << >> THEN << >> ELSE Insert(Head(s), Sort(Tail(s)))

Reverse(s) == [k \in 1..Len(s) |-> s[Len(s) + 1 - k]]

ObjectKeys(filesDict) == [k \in 1..Len(filesDict) |-> filesDict[k][1]]

Lookup(filesDict, key) ==
    IF \E k \in 1..Len(filesDict) : filesDict[k][1] = key
    THEN filesDict[CHOOSE k \in 1..Len(filesDict) : filesDict[k][1] = key][2]
    ELSE << >>

Range(s) == {s[k] : k \in 1..Len(s)}

----------------------------------------------------------------------------
(* DOM <select> elements.  The static page holds select-expiry,            *)
(* select-file and select-file-2, without options until the first refresh. *)

EmptySelect == [opts |-> << >>, idx |-> 0]

Value(sel) == IF sel.idx = 0 THEN "" ELSE sel.opts[sel.idx]

\* innerHTML = options, the ones equal to `chosen` carrying the attribute
\* `selected`: the marked option is selected, else the first one.
WithSelected(opts, chosen) ==
    [opts |-> opts,
     idx |-> IF \E k \in 1..Len(opts) : opts[k] = chosen
             THEN CHOOSE k \in 1..Len(opts) : opts[k] = chosen
             ELSE IF Len(opts) > 0 THEN 1 ELSE 0]

\* innerHTML = options, then select.value = v: the first option whose value
\* is v is selected; when there is none, no option is selected.
WithValue(opts, v) ==
    [opts |-> opts,
     idx |-> IF \E k \in 1..Len(opts) : opts[k] = v
             THEN CHOOSE k \in 1..Len(opts) :
                      opts[k] = v /\ \A j \in 1..(k - 1) : opts[j] # v
             ELSE 0]

----------------------------------------------------------------------------
(* app.js: _refreshFileControls, the part after the catalog has arrived *)

\* The keys sorted, the reverse() left out.
SortedExpiriesAscending(filesDict) == Sort(ObjectKeys(filesDict))

SortedExpiries(filesDict) == Reverse(Sort(ObjectKeys(filesDict)))

\* The latest expiry whatever was persisted.
ResolveExpiryLatest(persisted, expiries) ==
    IF Len(expiries) > 0 THEN expiries[1] ELSE ""

ResolveExpiry(persisted, expiries) ==
    OrElse(persisted, IF Len(expiries) > 0 THEN expiries[1] ELSE "")

\* The first file of the list, or the second when the first is persisted.
ResolveFileOther(persisted, files) ==
    IF Len(files) > 1 /\ persisted = files[1] THEN files[2]
    ELSE IF Len(files) > 0 THEN files[1] ELSE ""

ResolveFile(persisted, files) ==
    OrElse(persisted, IF Len(files) > 0 THEN files[1] ELSE "")

ResolveFile2(persisted, files) ==
    OrElse(persisted,
           IF Len(files) > 1 THEN files[2]
           ELSE IF Len(files) > 0 THEN files[1] ELSE "")

Resolved(idxData, filesDict) ==
    LET expiries == SortedExpiries(filesDict)
        selExpiry == ResolveExpiry(idxData.selectedExpiry, expiries)
        files == Lookup(filesDict, selExpiry)
    IN  [expiries |-> expiries,
         selExpiry |-> selExpiry,
         files |-> files,
         selFile |-> ResolveFile(idxData.selectedFile, files),
         selFile2 |-> ResolveFile2(idxData.selectedFile2, files)]

----------------------------------------------------------------------------
(* Pending requests.  Every task carries what its continuation captured    *)
(* before the await; `superseded` is history: a later refresh of the same  *)
(* index has already written its result to the store.                      *)

BaseTask ==
    [kind |-> None, index |-> None, caller |-> None, expiry |-> None,
     filename |-> None, compare |-> FALSE,
     bucket |-> None, category |-> None, subChart |-> None, mode |-> None,
     chartKey |-> None, chartId |-> None, superseded |-> FALSE]

StatusTask == [BaseTask EXCEPT !.kind = "getStatus"]

FilesTask(index, caller, expiry, compare) ==
    [BaseTask EXCEPT !.kind = "getFiles", !.index = index, !.caller = caller,
                     !.expiry = expiry, !.compare = compare]

LoadTask(index, expiry, filename) ==
    [BaseTask EXCEPT !.kind = "loadFile", !.index = index, !.expiry = expiry,
                     !.filename = filename]

FetchLiveTask == [BaseTask EXCEPT !.kind = "fetchLiveData"]

\* API.loadFile(index, expiry, filename) of the Data Management page
FormLoadTask(index, expiry, filename) ==
    [BaseTask EXCEPT !.kind = "formLoad", !.index = index, !.expiry = expiry,
                     !.filename = filename]

\* API.fetchLiveData(null) of the Data Management page
FetchAllTask == [BaseTask EXCEPT !.kind = "fetchAll"]

\* API.getFiles(index) of _loadFilesIntoForm
FormFilesTask(index, caller) ==
    [BaseTask EXCEPT !.kind = "formFiles", !.index = index, !.caller = caller]

RenderTask(index, bucket, category, subChart, mode) ==
    [BaseTask EXCEPT !.kind = "render", !.index = index, !.bucket = bucket,
                     !.category = category, !.subChart = subChart, !.mode = mode]

ChartTask(index, chartKey, chartId, mode) ==
    [BaseTask EXCEPT !.kind = "getChart", !.index = index, !.chartKey = chartKey,
                     !.chartId = chartId, !.mode = mode]

Without(seq, k) == [j \in 1..(Len(seq) - 1) |-> IF j < k THEN seq[j] ELSE seq[j + 1]]

\* History of the chart requests since the last full re-render: the
\* container ids requested once, and those requested more than once.
NoRequests == [once |-> {}, more |-> {}]

Requested(req, chartId) ==
    [once |-> req.once \cup {chartId},
     more |-> IF chartId \in req.once THEN req.more \cup {chartId} ELSE req.more]

CanStart == wired /\ Len(tasks) < MaxInFlight /\ clicks < MaxClicks

BaseLast ==
    [op |-> None, index |-> None, ok |-> FALSE, caller |-> None,
     superseded |-> FALSE, catalog |-> << >>, src |-> None,
     prev |-> InitialIndexData["Nifty"],
     expiry |-> None, filename |-> None, chartKey |-> None, mode |-> None,
     drawn |-> FALSE, settled |-> None,
     bucket |-> None, category |-> None, subChart |-> None, stored |-> None,
     again |-> FALSE,
     fn |-> None, registered |-> << >>, notified |-> << >>,
     patch |-> << >>, before |-> << >>, data |-> << >>, target |-> None,
     present |-> FALSE, readable |-> TRUE, outcome |-> None]

----------------------------------------------------------------------------
(* dashboard.js: the page as DashboardPage.render leaves it *)

\* The element load-form of the Data Management page before buildLoadForm
\* has filled it: no select, no button.
NoForm == [built |-> FALSE, index |-> None, expiry |-> "", file |-> ""]

InitialPage ==
    [view |-> "initial", index |-> None, bucket |-> None, category |-> None,
     modeSel |-> FALSE, tabs |-> << >>, container |-> None,
     chart |-> [status |-> None, index |-> None, key |-> None, mode |-> None],
     panels |-> << >>, form |-> NoForm]

LoadingPage == [InitialPage EXCEPT !.view = "loading"]

\* renderDashboard() -> DashboardPage.render(content), up to its await: the
\* state is captured, the overlay replaces the page, the two requests leave.
RenderNow(index) ==
    RenderTask(index, selectedBucket, selectedCategory, selectedSubChart,
               gammaChartMode)

----------------------------------------------------------------------------
(* The other endpoints, as far as the client reads their answers *)

\* GET /api/status -> {status: {index: {hasData, filepath}}}
StatusResults ==
    { [i \in IndexSet |-> [hasData |-> FALSE, filepath |-> ""]],
      [i \in IndexSet |-> IF i = "Nifty"
                          THEN [hasData |-> TRUE, filepath |-> "t1"]
                          ELSE [hasData |-> FALSE, filepath |-> ""]] }

\* POST /api/load -> {strikes, filepath, expiry}: the snapshot that was asked for
LoadResult(task) == [filepath |-> task.filename, expiry |-> task.expiry]

----------------------------------------------------------------------------
(* app.js: init *)

Init ==
    /\ selectedIndex = "Nifty"
    /\ indexData = InitialIndexData
    /\ selectedBucket = Undefined
    /\ selectedCategory = Undefined
    /\ selectedSubChart = Undefined
    /\ gammaChartMode = Undefined
    /\ compareMode = FALSE
    /\ isFetching = FALSE
    /\ wired = FALSE
    /\ expirySel = EmptySelect
    /\ fileSel = EmptySelect
    /\ fileSel2 = EmptySelect
    /\ fileSel2Shown = FALSE
    /\ page = InitialPage
    /\ tasks = <<StatusTask>>
    /\ clicks = 0
    /\ domIndex = None
    /\ last = BaseLast
    /\ listeners = << >>
    /\ closures = << >>
    /\ loadedCharts = {}
    /\ requested = NoRequests
    /\ snapshot = NoSnapshot

\* init(): the answer of API.getStatus(), then _wireControls() and
\* updateTopbar() up to the await of its catalog request.
StatusResponse(k, ok, status) ==
    /\ k \in 1..Len(tasks)
    /\ tasks[k].kind = "getStatus"
    /\ status \in StatusResults
    /\ ~ok => status = CHOOSE st \in StatusResults : TRUE
    /\ indexData' =
          IF ok
          THEN [i \in IndexSet |->
                   [indexData[i] EXCEPT !.hasData = status[i].hasData,
                                        !.loadedFile = status[i].filepath]]
          ELSE indexData
    /\ wired' = TRUE
    /\ tasks' = Append(Without(tasks, k),
                       FilesTask(selectedIndex, "init", None, compareMode))
    /\ last' = [BaseLast EXCEPT !.op = "status", !.ok = ok]
    /\ UNCHANGED clicks
    /\ UNCHANGED <<selectedIndex, storeNav, compareMode, isFetching, topbarDom, page>>
    /\ UNCHANGED <<subscriptions, chartLoads>>
    /\ UNCHANGED snapshot

----------------------------------------------------------------------------
(* app.js: _wireControls, the handlers up to their first await *)

\* 1. Index Change
IndexChange(newIndex) ==
    /\ CanStart
    /\ newIndex \in IndexSet
    /\ newIndex # selectedIndex
    /\ selectedIndex' = newIndex
    /\ tasks' = Append(tasks, FilesTask(newIndex, "index", None, compareMode))
    /\ last' = [BaseLast EXCEPT !.op = "indexChange", !.index = newIndex,
                                !.prev = indexData[newIndex]]
    /\ clicks' = clicks + 1
    /\ UNCHANGED <<indexData, storeNav, compareMode, isFetching, wired, topbarDom, page>>
    /\ UNCHANGED <<subscriptions, chartLoads>>
    /\ UNCHANGED snapshot

\* 2. Expiry Change
ExpiryChange(k) ==
    /\ CanStart
    /\ k \in 1..Len(expirySel.opts)
    /\ k # expirySel.idx
    /\ LET expiry == expirySel.opts[k]
           index == selectedIndex
       IN  /\ expirySel' = [expirySel EXCEPT !.idx = k]
           /\ indexData' = setIndexData(index, [selectedExpiry |-> expiry])
           /\ tasks' = Append(tasks, FilesTask(index, "expiry", expiry, compareMode))
           /\ last' = [BaseLast EXCEPT !.op = "expiryChange", !.index = index,
                                       !.src = domIndex, !.expiry = expiry,
                                       !.prev = indexData[index]]
    /\ clicks' = clicks + 1
    /\ UNCHANGED <<selectedIndex, storeNav, compareMode, isFetching, wired,
                   fileSel, fileSel2, fileSel2Shown, domIndex, page>>
    /\ UNCHANGED <<subscriptions, chartLoads>>
    /\ UNCHANGED snapshot

\* _triggerLoad up to its await: the request leaves only with both values
\* The request sent whatever the expiry and the filename are.
triggerLoadUnguarded(index, expiry, filename) == <<LoadTask(index, expiry, filename)>>

triggerLoad(index, expiry, filename) ==
    IF Falsy(expiry) \/ Falsy(filename)
    THEN << >>
    ELSE <<LoadTask(index, expiry, filename)>>

\* 3. File Change
FileChange(k) ==
    /\ CanStart
    /\ k \in 1..Len(fileSel.opts)
    /\ k # fileSel.idx
    /\ LET file == fileSel.opts[k]
           expiry == Value(expirySel)
           index == selectedIndex
       IN  /\ fileSel' = [fileSel EXCEPT !.idx = k]
           /\ indexData' = setIndexData(index, [selectedFile |-> file])
           /\ tasks' = tasks \o triggerLoad(index, expiry, file)
           /\ last' = [BaseLast EXCEPT !.op = "fileChange", !.index = index,
                                       !.src = domIndex, !.expiry = expiry,
                                       !.filename = file,
                                       !.prev = indexData[index]]
    /\ clicks' = clicks + 1
    /\ UNCHANGED <<selectedIndex, storeNav, compareMode, isFetching, wired,
                   expirySel, fileSel2, fileSel2Shown, domIndex, page>>
    /\ UNCHANGED <<subscriptions, chartLoads>>
    /\ UNCHANGED snapshot

\* 6. File 2 Change
File2Change(k) ==
    /\ CanStart
    /\ k \in 1..Len(fileSel2.opts)
    /\ k # fileSel2.idx
    /\ LET file == fileSel2.opts[k]
           index == selectedIndex
       IN  /\ fileSel2' = [fileSel2 EXCEPT !.idx = k]
           /\ indexData' = setIndexData(index, [selectedFile2 |-> file])
           /\ tasks' = Append(tasks, RenderNow(selectedIndex))
           /\ page' = LoadingPage
           /\ last' = [BaseLast EXCEPT !.op = "file2Change", !.index = index,
                                       !.src = domIndex, !.filename = file,
                                       !.prev = indexData[index]]
    /\ clicks' = clicks + 1
    /\ UNCHANGED <<selectedIndex, storeNav, compareMode, isFetching, wired,
                   expirySel, fileSel, fileSel2Shown, domIndex>>
    /\ UNCHANGED <<subscriptions, chartLoads>>
    /\ UNCHANGED snapshot

\* A click that starts a request whatever the flag says.
FetchClickUnguarded ==
    /\ CanStart
    /\ isFetching' = TRUE
    /\ tasks' = Append(tasks, FetchLiveTask)
    /\ last' = [BaseLast EXCEPT !.op = "fetchClick"]
    /\ clicks' = clicks + 1
    /\ UNCHANGED <<selectedIndex, indexData, storeNav, compareMode, wired, topbarDom, page>>
    /\ UNCHANGED <<subscriptions, chartLoads>>
    /\ UNCHANGED snapshot

\* 4. Fetch Button
FetchClick ==
    /\ CanStart
    /\ ~isFetching
    /\ isFetching' = TRUE
    /\ tasks' = Append(tasks, FetchLiveTask)
    /\ last' = [BaseLast EXCEPT !.op = "fetchClick"]
    /\ clicks' = clicks + 1
    /\ UNCHANGED <<selectedIndex, indexData, storeNav, compareMode, wired, topbarDom, page>>
    /\ UNCHANGED <<subscriptions, chartLoads>>
    /\ UNCHANGED snapshot

\* 5. Compare Button
CompareClick ==
    /\ CanStart
    /\ compareMode' = ~compareMode
    /\ tasks' = Append(tasks, FilesTask(selectedIndex, "compare", None, ~compareMode))
    /\ last' = [BaseLast EXCEPT !.op = "compareClick"]
    /\ clicks' = clicks + 1
    /\ UNCHANGED <<selectedIndex, indexData, storeNav, isFetching, wired, topbarDom, page>>
    /\ UNCHANGED <<subscriptions, chartLoads>>
    /\ UNCHANGED snapshot

----------------------------------------------------------------------------
(* app.js: the continuations *)

\* Fetch Button: the answer of API.fetchLiveData(null); on success
\* updateTopbar() up to the await of its catalog request, else the finally.
FetchLiveResponse(k, ok) ==
    /\ k \in 1..Len(tasks)
    /\ tasks[k].kind = "fetchLiveData"
    /\ IF ok
       THEN /\ tasks' = Append(Without(tasks, k),
                               FilesTask(selectedIndex, "fetch", None, compareMode))
            /\ UNCHANGED isFetching
       ELSE /\ tasks' = Without(tasks, k)
            /\ isFetching' = FALSE
    /\ last' = [BaseLast EXCEPT !.op = "fetchLive", !.ok = ok]
    /\ UNCHANGED clicks
    /\ UNCHANGED <<selectedIndex, indexData, storeNav, compareMode, wired, topbarDom, page>>
    /\ UNCHANGED <<subscriptions, chartLoads>>
    /\ UNCHANGED snapshot

\* A failed request carries no catalog.
NoAnswer(index) == CHOOSE filesDict \in CatalogsOf(index) : TRUE

\* The requests of the kind of task k issued before it for the same index:
\* once k has written its result they are superseded.
MarkSuperseded(seq, k) ==
    [j \in 1..Len(seq) |->
        IF j < k /\ seq[j].kind = seq[k].kind /\ seq[j].index = seq[k].index
        THEN [seq[j] EXCEPT !.superseded = TRUE]
        ELSE seq[j]]

\* What the caller of _refreshFileControls does once it has returned:
\* updateTopbar shows or hides the second file selector and its caller
\* re-renders; the expiry handler reads the file dropdown and loads.
\* The dashboard rendered for the index whose catalog was refreshed.
AfterRefreshOfRequested(task, newFileSel) ==
    IF task.caller = "expiry"
    THEN triggerLoad(task.index, task.expiry, Value(newFileSel))
    ELSE IF task.caller = "topbar" THEN << >>
    ELSE <<RenderTask(task.index, selectedBucket, selectedCategory,
                      selectedSubChart, gammaChartMode)>>

AfterRefresh(task, newFileSel) ==
    IF task.caller = "expiry"
    THEN triggerLoad(task.index, task.expiry, Value(newFileSel))
    ELSE IF task.caller = "topbar" THEN << >>
    ELSE <<RenderNow(selectedIndex)>>

\* A failed catalog request clears the persisted selection of the index.
RefreshedIndexDataOrCleared(ok, index, r) ==
    setIndexData(index,
        IF ok
        THEN [selectedExpiry |-> r.selExpiry, selectedFile |-> r.selFile,
              selectedFile2 |-> r.selFile2]
        ELSE [selectedExpiry |-> "", selectedFile |-> "", selectedFile2 |-> ""])

\* The refresh recording the resolved file as the loaded one.
RefreshedIndexDataLoading(ok, index, r) ==
    IF ok
    THEN setIndexData(index,
             [selectedExpiry |-> r.selExpiry, selectedFile |-> r.selFile,
              selectedFile2 |-> r.selFile2, loadedFile |-> r.selFile])
    ELSE indexData

\* State.setIndexData(index, {selectedExpiry, selectedFile, selectedFile2}) at
\* the end of the try block; the catch block writes nothing.
RefreshedIndexData(ok, index, r) ==
    IF ok
    THEN setIndexData(index,
             [selectedExpiry |-> r.selExpiry, selectedFile |-> r.selFile,
              selectedFile2 |-> r.selFile2])
    ELSE indexData

\* How the promise of the async function _refreshFileControls settles for the
\* caller that awaits it: the body is one try/catch whose catch block logs
\* and does not rethrow, and no path returns a value.
RefreshSettles(ok) == [state |-> "fulfilled", value |-> Undefined]

\* _refreshFileControls(index) from the answer of API.getFiles(index) on, and
\* then its caller to the caller's next await.
RefreshResponse(k, ok, filesDict) ==
    /\ k \in 1..Len(tasks)
    /\ tasks[k].kind = "getFiles"
    /\ filesDict \in CatalogsOf(tasks[k].index)
    /\ ~ok => filesDict = NoAnswer(tasks[k].index)
    /\ LET task == tasks[k]
           index == task.index
           r == Resolved(getIndexData(index), filesDict)
           fileOptions == IF Len(r.files) > 0 THEN r.files ELSE <<"">>
           newFileSel == IF ok THEN WithValue(fileOptions, r.selFile) ELSE fileSel
       IN  /\ IF ok
              THEN /\ expirySel' = IF Len(r.expiries) > 0
                                   THEN WithSelected(r.expiries, r.selExpiry)
                                   ELSE WithSelected(<<"">>, "")
                   /\ fileSel' = newFileSel
                   /\ fileSel2' = WithValue(<<"">> \o fileOptions, r.selFile2)
                   /\ domIndex' = index
              ELSE UNCHANGED <<expirySel, fileSel, fileSel2, domIndex>>
           /\ indexData' = RefreshedIndexData(ok, index, r)
           /\ fileSel2Shown' = IF task.caller = "expiry" THEN fileSel2Shown
                               ELSE task.compare
           /\ isFetching' = IF task.caller = "fetch" THEN FALSE ELSE isFetching
           /\ page' = IF task.caller \in {"expiry", "topbar"} THEN page ELSE LoadingPage
           /\ tasks' = Without(IF ok THEN MarkSuperseded(tasks, k) ELSE tasks, k)
                       \o AfterRefresh(task, newFileSel)
           /\ last' = [BaseLast EXCEPT !.op = "refresh", !.index = index, !.ok = ok,
                                       !.caller = task.caller,
                                       !.superseded = task.superseded,
                                       !.catalog = IF ok THEN filesDict ELSE << >>,
                                       !.expiry = task.expiry,
                                       !.prev = indexData[index],
                                       !.again = /\ ok
                                                 /\ last.op = "refresh" /\ last.ok
                                                 /\ last.index = index
                                                 /\ last.catalog = filesDict,
                                       !.settled = RefreshSettles(ok)]
    /\ UNCHANGED clicks
    /\ UNCHANGED <<selectedIndex, storeNav, compareMode, wired>>
    /\ UNCHANGED <<subscriptions, chartLoads>>
    /\ UNCHANGED snapshot

\* The dashboard rendered after the answer, whatever it is.
AfterLoadAlways(ok) == <<RenderNow(selectedIndex)>>

\* renderDashboard() is the last statement of the try block; the catch block
\* shows a toast.
AfterLoad(ok) == IF ok THEN <<RenderNow(selectedIndex)>> ELSE << >>

\* _triggerLoad from the answer of API.loadFile on
LoadResponse(k, ok) ==
    /\ k \in 1..Len(tasks)
    /\ tasks[k].kind = "loadFile"
    /\ LET task == tasks[k]
           data == LoadResult(task)
       IN  /\ IF ok
              THEN /\ indexData' = setIndexData(task.index,
                                       [hasData |-> TRUE,
                                        loadedFile |-> data.filepath,
                                        expiry |-> data.expiry])
                   /\ tasks' = Without(MarkSuperseded(tasks, k), k) \o AfterLoad(ok)
                   /\ page' = LoadingPage
              ELSE /\ tasks' = Without(tasks, k) \o AfterLoad(ok)
                   /\ UNCHANGED <<indexData, page>>
           /\ last' = [BaseLast EXCEPT !.op = "load", !.index = task.index, !.ok = ok,
                                       !.superseded = task.superseded,
                                       !.expiry = task.expiry,
                                       !.filename = task.filename,
                                       !.prev = indexData[task.index],
                                       !.data = IF ok THEN data ELSE << >>]
    /\ UNCHANGED clicks
    /\ UNCHANGED <<selectedIndex, storeNav, compareMode, isFetching, wired, topbarDom>>
    /\ UNCHANGED <<subscriptions, chartLoads>>
    /\ UNCHANGED snapshot

----------------------------------------------------------------------------
(* data-management.js: the Data Management page *)

\* POST /api/fetch -> {results: [{index, success, strikes?, expiry?, filepath?, error?}]}
Fetched(index) ==
    [index |-> index, success |-> TRUE, filepath |-> "live", expiry |-> "2024-02-08"]

NotFetched(index) ==
    [index |-> index, success |-> FALSE, filepath |-> Undefined, expiry |-> Undefined]

FetchResults ==
    { << >>,
      <<Fetched("Nifty"), NotFetched("BankNifty"), Fetched("Sensex")>>,
      <<NotFetched("Nifty"), Fetched("BankNifty")>>,
      <<NotFetched("Nifty"), NotFetched("BankNifty"), NotFetched("Sensex")>> }

\* results.some(r => r.success)
AnySuccess(results) == \E k \in DOMAIN results : results[k].success

\* Every result of the batch written, failed ones included.
WriteResultsAll(data, results) ==
    [i \in DOMAIN data \cup {results[k].index : k \in DOMAIN results} |->
        IF \E k \in DOMAIN results : results[k].index = i
        THEN LET k == CHOOSE j \in DOMAIN results : results[j].index = i
             IN  Spread(IF i \in DOMAIN data THEN data[i] ELSE << >>,
                        [hasData |-> TRUE, loadedFile |-> results[k].filepath,
                         expiry |-> results[k].expiry])
        ELSE data[i]]

\* results.forEach(r => { if (r.success) State.setIndexData(r.index,
\*     { hasData: true, loadedFile: r.filepath, expiry: r.expiry }) })
\* for results that name each index once
WriteResults(data, results) ==
    LET written == {k \in DOMAIN results : results[k].success}
    IN  [i \in DOMAIN data \cup {results[k].index : k \in written} |->
            IF \E k \in written : results[k].index = i
            THEN LET k == CHOOSE j \in written : results[j].index = i
                 IN  Spread(IF i \in DOMAIN data THEN data[i] ELSE << >>,
                            [hasData |-> TRUE, loadedFile |-> results[k].filepath,
                             expiry |-> results[k].expiry])
            ELSE data[i]]

DataPage == [InitialPage EXCEPT !.view = "data-management"]

\* btn.disabled: a click handler of btn-fetch-all has not reached its finally
FetchRunning ==
    \E k \in DOMAIN tasks :
        \/ tasks[k].kind = "fetchAll"
        \/ tasks[k].kind = "formFiles" /\ tasks[k].caller = "fetch"

\* App.navigate('data-management') -> DataManagementPage.render(content),
\* up to the await of _loadFilesIntoForm; the user leaves the button alone
\* while its handler runs.
Navigate ==
    /\ wired /\ Len(tasks) < MaxInFlight
    /\ page.view # "data-management"
    /\ ~FetchRunning
    /\ page' = DataPage
    /\ tasks' = Append(tasks, FormFilesTask(selectedIndex, "render"))
    /\ last' = [BaseLast EXCEPT !.op = "navigate", !.index = selectedIndex]
    /\ UNCHANGED clicks
    /\ UNCHANGED <<selectedIndex, indexData, storeNav, compareMode, isFetching,
                   wired, topbarDom>>
    /\ UNCHANGED <<subscriptions, chartLoads>>
    /\ UNCHANGED snapshot

\* buildLoadForm(filesDict, index): the values the two selects of the form
\* hold once the markup is in the page; an empty catalog gives a notice and
\* neither selects nor button.
buildLoadForm(filesDict, index) ==
    LET r == Resolved(getIndexData(index), filesDict)
    IN  IF Len(r.expiries) = 0 THEN NoForm
        ELSE [built |-> TRUE, index |-> index,
              expiry |-> Value(WithSelected(r.expiries, r.selExpiry)),
              file |-> Value(WithSelected(r.files, r.selFile))]

\* _loadFilesIntoForm from the answer of API.getFiles on: the form is built
\* or the error is shown; the finally of the click handler that awaited it.
DataFormResponse(k, ok, filesDict) ==
    /\ k \in 1..Len(tasks)
    /\ tasks[k].kind = "formFiles"
    /\ filesDict \in CatalogsOf(tasks[k].index)
    /\ ~ok => filesDict = NoAnswer(tasks[k].index)
    /\ page' = IF page.view # "data-management" THEN page
               ELSE [page EXCEPT !.form = IF ok
                                          THEN buildLoadForm(filesDict, tasks[k].index)
                                          ELSE NoForm]
    /\ tasks' = Without(tasks, k)
    /\ last' = [BaseLast EXCEPT !.op = "formFiles", !.index = tasks[k].index,
                                !.ok = ok, !.caller = tasks[k].caller]
    /\ UNCHANGED clicks
    /\ UNCHANGED <<selectedIndex, indexData, storeNav, compareMode, isFetching,
                   wired, topbarDom>>
    /\ UNCHANGED <<subscriptions, chartLoads>>
    /\ UNCHANGED snapshot

\* _wireFetchButton: the click, up to await API.fetchLiveData(null)
DataFetchClick ==
    /\ CanStart
    /\ page.view = "data-management"
    /\ ~FetchRunning
    /\ tasks' = Append(tasks, FetchAllTask)
    /\ last' = [BaseLast EXCEPT !.op = "fetchAllClick"]
    /\ clicks' = clicks + 1
    /\ UNCHANGED <<selectedIndex, indexData, storeNav, compareMode, isFetching,
                   wired, topbarDom, page>>
    /\ UNCHANGED <<subscriptions, chartLoads>>
    /\ UNCHANGED snapshot

\* _wireFetchButton from the answer on: the successful results are written,
\* App.updateTopbar() is called and, when the selected index is among them,
\* _loadFilesIntoForm is awaited; a rejected request shows its message.
DataFetchResponse(k, ok, results) ==
    /\ k \in 1..Len(tasks)
    /\ tasks[k].kind = "fetchAll"
    /\ results \in FetchResults
    /\ ~ok => results = << >>
    /\ LET anySuccess == ok /\ AnySuccess(results)
           current == \E j \in DOMAIN results :
                          results[j].index = selectedIndex /\ results[j].success
       IN  /\ indexData' = IF ok THEN WriteResults(indexData, results) ELSE indexData
           /\ tasks' = Without(tasks, k)
                       \o (IF anySuccess
                           THEN <<FilesTask(selectedIndex, "topbar", None, compareMode)>>
                           ELSE << >>)
                       \o (IF anySuccess /\ current
                           THEN <<FormFilesTask(selectedIndex, "fetch")>>
                           ELSE << >>)
    /\ last' = [BaseLast EXCEPT !.op = "fetchAll", !.ok = ok, !.data = results,
                                !.before = StoreState]
    /\ UNCHANGED clicks
    /\ UNCHANGED <<selectedIndex, storeNav, compareMode, isFetching, wired,
                   topbarDom, page>>
    /\ UNCHANGED <<subscriptions, chartLoads>>
    /\ UNCHANGED snapshot

\* _wireLoadButton: the click, up to await API.loadFile; nothing starts
\* without an expiry and a file in the form, or while the button is disabled.
DataLoadClick ==
    /\ CanStart
    /\ page.view = "data-management"
    /\ page.form.built
    /\ page.form.expiry # "" /\ page.form.file # ""
    /\ ~\E k \in DOMAIN tasks : tasks[k].kind = "formLoad"
    /\ tasks' = Append(tasks, FormLoadTask(page.form.index, page.form.expiry,
                                           page.form.file))
    /\ last' = [BaseLast EXCEPT !.op = "formLoadClick", !.index = page.form.index]
    /\ clicks' = clicks + 1
    /\ UNCHANGED <<selectedIndex, indexData, storeNav, compareMode, isFetching,
                   wired, topbarDom, page>>
    /\ UNCHANGED <<subscriptions, chartLoads>>
    /\ UNCHANGED snapshot

\* _wireLoadButton from the answer on: the record of the index is written,
\* App.updateTopbar() is called and App.navigate('dashboard') renders the
\* dashboard; a rejected request shows its message.
DataLoadResponse(k, ok) ==
    /\ k \in 1..Len(tasks)
    /\ tasks[k].kind = "formLoad"
    /\ LET task == tasks[k]
           data == LoadResult(task)
       IN  /\ IF ok
              THEN /\ indexData' = setIndexData(task.index,
                                       [hasData |-> TRUE,
                                        loadedFile |-> data.filepath,
                                        expiry |-> data.expiry])
                   /\ tasks' = Without(tasks, k)
                               \o <<FilesTask(selectedIndex, "topbar", None,
                                              compareMode),
                                    RenderNow(selectedIndex)>>
                   /\ page' = LoadingPage
              ELSE /\ tasks' = Without(tasks, k)
                   /\ UNCHANGED <<indexData, page>>
           /\ last' = [BaseLast EXCEPT !.op = "formLoad", !.index = task.index,
                                       !.ok = ok,
                                       !.expiry = task.expiry,
                                       !.filename = task.filename,
                                       !.prev = indexData[task.index],
                                       !.data = IF ok THEN data ELSE << >>]
    /\ UNCHANGED clicks
    /\ UNCHANGED <<selectedIndex, storeNav, compareMode, isFetching, wired, topbarDom>>
    /\ UNCHANGED <<subscriptions, chartLoads>>
    /\ UNCHANGED snapshot

----------------------------------------------------------------------------
(* dashboard.js: the navigation model *)

Buckets == <<"Exposure", "Others">>

CategoriesOf(bucket) ==
    CASE bucket = "Exposure" -> <<"Gamma", "Delta", "Vanna">>
      [] bucket = "Others" -> <<"Volatility", "Quant">>
      [] OTHER -> << >>

ANALYSIS_STRUCTURE(bucket, category) ==
    CASE bucket = "Exposure" /\ category = "Gamma" ->
            << [key |-> "gex", id |-> "chart-gex"],
               [key |-> "cum_gex", id |-> "chart-cum-gex"] >>
      [] bucket = "Others" /\ category = "Volatility" ->
            << [key |-> "iv_smile", id |-> "chart-iv-smile"],
               [key |-> "rr_bf", id |-> "chart-rr-bf"] >>
      [] bucket = "Others" /\ category = "Quant" ->
            << [key |-> "quant_power", id |-> "chart-quant-power"],
               [key |-> "regime", id |-> "chart-regime"] >>
      [] OTHER -> << >>

\* ANALYSIS_STRUCTURE[bucket]?.[category] || []
ChartsOf(bucket, category) == ANALYSIS_STRUCTURE(bucket, category)

Ids(charts) == {charts[k].id : k \in 1..Len(charts)}

\* The first chart of the list, whatever sub-chart is selected.
ActiveChartFirst(charts, subChart) == charts[1]

\* charts.find(c => c.id === (subChart || charts[0].id)) || charts[0]
ActiveChart(charts, subChart) ==
    LET activeId == OrElse(subChart, charts[1].id)
    IN  IF activeId \in Ids(charts)
        THEN charts[CHOOSE k \in 1..Len(charts) : charts[k].id = activeId]
        ELSE charts[1]

FirstChartId(charts) == IF Len(charts) > 0 THEN charts[1].id ELSE Null

\* The first chart of the bucket's first category, whatever category was asked.
FirstSubOfFirstCategory(bucket, category) ==
    FirstChartId(ChartsOf(bucket, CategoriesOf(bucket)[1]))

\* The sub-chart selection left as it was.
KeptSubChart(bucket, category) == selectedSubChart

\* ANALYSIS_STRUCTURE[bucket][category][0]?.id || null
FirstSub(bucket, category) == FirstChartId(ChartsOf(bucket, category))

\* The stored mode passed for every chart key.
ModeForAnyKey(chartKey, storedMode) == storedMode

\* the mode render passes for a chart key
ModeFor(chartKey, storedMode) ==
    IF chartKey \in {"gex", "cum_gex"} THEN storedMode ELSE "net"

\* fetchAndRender(index, chartType, containerId, mode = 'net')
DefaultMode(mode) == IF mode = Undefined THEN "net" ELSE mode

----------------------------------------------------------------------------
(* dashboard.js: render from the answers of getMetrics / getVolSurface on, *)
(* and charts.js: fetchAndRender up to its await                           *)

NoChart == [status |-> None, index |-> None, key |-> None, mode |-> None]

\* The markup of a successful pass: the navigation and the chart tabs are
\* built from the store as it is now, the mode selector from the captured st.
DashboardMarkup(task) ==
    LET charts == ChartsOf(selectedBucket, selectedCategory)
    IN  [view |-> "dashboard",
         index |-> task.index,
         bucket |-> selectedBucket,
         category |-> selectedCategory,
         modeSel |-> (task.category = "Gamma"),
         tabs |-> IF Len(charts) > 1 THEN [k \in 1..Len(charts) |-> charts[k].id]
                  ELSE << >>,
         container |-> IF Len(charts) = 0 THEN None
                       ELSE ActiveChart(charts, selectedSubChart).id,
         chart |-> IF Len(charts) = 0 THEN NoChart
                   ELSE [NoChart EXCEPT !.status = "placeholder"],
         panels |-> << >>,
         form |-> NoForm]

\* showLoading(containerId): only an element that exists changes
ShowLoading(markup, containerId) ==
    IF markup.container = containerId
    THEN [markup EXCEPT !.chart = [NoChart EXCEPT !.status = "loading"]]
    ELSE markup

\* Every failure shown in the generic error panel.
FailedPageGeneric(outcome) == [InitialPage EXCEPT !.view = "error"]

\* catch (err): buildEmptyState() when err.message includes 'No data loaded',
\* the "Dashboard error" alert otherwise.
FailedPage(outcome) ==
    [InitialPage EXCEPT !.view = IF outcome = "No data loaded"
                                 THEN "empty" ELSE "error"]

\* A pass that writes the mode it has requested back into the store.
RenderResponseStoring(k, outcome) ==
    /\ k \in 1..Len(tasks)
    /\ tasks[k].kind = "render"
    /\ outcome \in {"ok", "No data loaded", "other"}
    /\ LET task == tasks[k]
           activeCharts == ChartsOf(task.bucket, task.category)
           chart == ActiveChart(activeCharts, task.subChart)
           mode == DefaultMode(ModeFor(chart.key, task.mode))
       IN  /\ IF outcome = "ok"
              THEN IF Len(activeCharts) > 0
                   THEN /\ page' = ShowLoading(DashboardMarkup(task), chart.id)
                        /\ tasks' = Append(Without(tasks, k),
                                           ChartTask(task.index, chart.key, chart.id, mode))
                        /\ loadedCharts' = {chart.id}
                        /\ requested' = Requested(NoRequests, chart.id)
                   ELSE /\ page' = DashboardMarkup(task)
                        /\ tasks' = Without(tasks, k)
                        /\ requested' = NoRequests
                        /\ UNCHANGED loadedCharts
              ELSE /\ page' = FailedPage(outcome)
                   /\ tasks' = Without(tasks, k)
                   /\ UNCHANGED chartLoads
           /\ gammaChartMode' = IF outcome = "ok" /\ Len(activeCharts) > 0
                                THEN mode ELSE gammaChartMode
           /\ last' = [BaseLast EXCEPT
                          !.op = "render", !.index = task.index,
                          !.ok = (outcome = "ok"), !.caller = task.caller,
                          !.outcome = outcome,
                          !.bucket = task.bucket, !.category = task.category,
                          !.subChart = task.subChart,
                          !.stored = task.mode,
                          !.chartKey = IF outcome = "ok" /\ Len(activeCharts) > 0
                                       THEN chart.key ELSE None,
                          !.mode = IF outcome = "ok" /\ Len(activeCharts) > 0
                                   THEN mode ELSE None]
    /\ UNCHANGED clicks
    /\ UNCHANGED <<selectedIndex, indexData, selectedBucket, selectedCategory,
                   selectedSubChart, compareMode, isFetching, wired, topbarDom>>
    /\ UNCHANGED subscriptions
    /\ UNCHANGED snapshot

RenderResponse(k, outcome) ==
    /\ k \in 1..Len(tasks)
    /\ tasks[k].kind = "render"
    /\ outcome \in {"ok", "No data loaded", "other"}
    /\ LET task == tasks[k]
           activeCharts == ChartsOf(task.bucket, task.category)
           chart == ActiveChart(activeCharts, task.subChart)
           mode == DefaultMode(ModeFor(chart.key, task.mode))
       IN  /\ IF outcome = "ok"
              THEN IF Len(activeCharts) > 0
                   THEN /\ page' = ShowLoading(DashboardMarkup(task), chart.id)
                        /\ tasks' = Append(Without(tasks, k),
                                           ChartTask(task.index, chart.key, chart.id, mode))
                        /\ loadedCharts' = {chart.id}
                        /\ requested' = Requested(NoRequests, chart.id)
                   ELSE /\ page' = DashboardMarkup(task)
                        /\ tasks' = Without(tasks, k)
                        /\ requested' = NoRequests
                        /\ UNCHANGED loadedCharts
              ELSE /\ page' = FailedPage(outcome)
                   /\ tasks' = Without(tasks, k)
                   /\ UNCHANGED chartLoads
           /\ last' = [BaseLast EXCEPT
                          !.op = "render", !.index = task.index,
                          !.ok = (outcome = "ok"), !.caller = task.caller,
                          !.outcome = outcome,
                          !.bucket = task.bucket, !.category = task.category,
                          !.subChart = task.subChart,
                          !.stored = task.mode,
                          !.chartKey = IF outcome = "ok" /\ Len(activeCharts) > 0
                                       THEN chart.key ELSE None,
                          !.mode = IF outcome = "ok" /\ Len(activeCharts) > 0
                                   THEN mode ELSE None]
    /\ UNCHANGED clicks
    /\ UNCHANGED <<selectedIndex, indexData, storeNav, compareMode, isFetching,
                   wired, topbarDom>>
    /\ UNCHANGED subscriptions
    /\ UNCHANGED snapshot

\* The spinner stays in the container of a request that failed.
ChartPanelOrSpinner(task, ok, readable) ==
    IF ok /\ readable
    THEN [status |-> "drawn", index |-> task.index, key |-> task.chartKey,
          mode |-> task.mode]
    ELSE [NoChart EXCEPT !.status = "loading"]

\* What fetchAndRender leaves in a container that exists: the figure drawn
\* by Plotly.react; "Chart render error: ..." when JSON.parse or Plotly.react
\* throws; err.message of the request that failed.
ChartPanel(task, ok, readable) ==
    IF ok
    THEN IF readable
         THEN [status |-> "drawn", index |-> task.index, key |-> task.chartKey,
               mode |-> task.mode]
         ELSE [NoChart EXCEPT !.status = "renderError"]
    ELSE [NoChart EXCEPT !.status = "error"]

\* fetchAndRender from the answer of API.getChart on: Charts.render draws
\* into the container when the page still has an element of that id.
ChartResponse(k, ok, readable) ==
    /\ k \in 1..Len(tasks)
    /\ tasks[k].kind = "getChart"
    /\ ~ok => readable
    /\ LET task == tasks[k]
           exists == page.view = "dashboard" /\ page.container = task.chartId
       IN  /\ page' = IF ~exists THEN page
                      ELSE [page EXCEPT !.chart = ChartPanel(task, ok, readable)]
           /\ last' = [BaseLast EXCEPT !.op = "chart", !.index = task.index, !.ok = ok,
                                       !.chartKey = task.chartKey, !.mode = task.mode,
                                       !.drawn = (exists /\ ok /\ readable),
                                       !.present = exists,
                                       !.readable = readable]
    /\ tasks' = Without(tasks, k)
    /\ UNCHANGED clicks
    /\ UNCHANGED <<selectedIndex, indexData, storeNav, compareMode, isFetching,
                   wired, topbarDom>>
    /\ UNCHANGED <<subscriptions, chartLoads>>
    /\ UNCHANGED snapshot

----------------------------------------------------------------------------
(* dashboard.js: _wireAnalysisNav, the click handlers of the rendered page *)

CanClick == page.view = "dashboard" /\ Len(tasks) < MaxInFlight /\ clicks < MaxNavClicks

BucketClick(bucket) ==
    /\ CanClick
    /\ bucket \in Range(Buckets)
    /\ LET firstCat == CategoriesOf(bucket)[1]
           firstSub == FirstSub(bucket, firstCat)
       IN  /\ selectedBucket' = bucket
           /\ selectedCategory' = firstCat
           /\ selectedSubChart' = firstSub
           /\ tasks' = Append(tasks, RenderTask(selectedIndex, bucket, firstCat,
                                                firstSub, gammaChartMode))
    /\ page' = LoadingPage
    /\ last' = [BaseLast EXCEPT !.op = "bucketClick", !.ok = TRUE, !.bucket = bucket,
                                !.subChart = selectedSubChart]
    /\ clicks' = clicks + 1
    /\ UNCHANGED <<selectedIndex, indexData, gammaChartMode, compareMode, isFetching,
                   wired, topbarDom>>
    /\ UNCHANGED <<subscriptions, chartLoads>>
    /\ UNCHANGED snapshot

CategoryClick(cat) ==
    /\ CanClick
    /\ cat \in Range(CategoriesOf(page.bucket))
    /\ IF cat \in Range(CategoriesOf(selectedBucket))
       THEN LET firstSub == FirstSub(selectedBucket, cat)
            IN  /\ selectedCategory' = cat
                /\ selectedSubChart' = firstSub
                /\ tasks' = Append(tasks, RenderTask(selectedIndex, selectedBucket, cat,
                                                     firstSub, gammaChartMode))
                /\ page' = LoadingPage
       ELSE \* ANALYSIS_STRUCTURE[bucket][cat] is undefined: the handler throws
            UNCHANGED <<selectedCategory, selectedSubChart, tasks, page>>
    /\ last' = [BaseLast EXCEPT !.op = "categoryClick",
                                !.ok = (cat \in Range(CategoriesOf(selectedBucket))),
                                !.bucket = selectedBucket, !.category = cat,
                                !.subChart = selectedSubChart]
    /\ clicks' = clicks + 1
    /\ UNCHANGED <<selectedIndex, indexData, selectedBucket, gammaChartMode,
                   compareMode, isFetching, wired, topbarDom>>
    /\ UNCHANGED <<subscriptions, chartLoads>>
    /\ UNCHANGED snapshot

\* The mode click going back to the first chart of the category.
ModeClickFirstChart(mode) ==
    /\ CanClick
    /\ page.modeSel
    /\ mode \in {"net", "raw"}
    /\ gammaChartMode' = mode
    /\ selectedSubChart' = FirstSub(selectedBucket, selectedCategory)
    /\ tasks' = Append(tasks, RenderTask(selectedIndex, selectedBucket,
                                         selectedCategory,
                                         FirstSub(selectedBucket, selectedCategory),
                                         mode))
    /\ page' = LoadingPage
    /\ last' = [BaseLast EXCEPT !.op = "modeClick"]
    /\ clicks' = clicks + 1
    /\ UNCHANGED <<selectedIndex, indexData, selectedBucket, selectedCategory,
                   compareMode, isFetching, wired, topbarDom>>
    /\ UNCHANGED <<subscriptions, chartLoads>>
    /\ UNCHANGED snapshot

ModeClick(mode) ==
    /\ CanClick
    /\ page.modeSel
    /\ mode \in {"net", "raw"}
    /\ gammaChartMode' = mode
    /\ tasks' = Append(tasks, RenderTask(selectedIndex, selectedBucket,
                                         selectedCategory, selectedSubChart, mode))
    /\ page' = LoadingPage
    /\ last' = [BaseLast EXCEPT !.op = "modeClick"]
    /\ clicks' = clicks + 1
    /\ UNCHANGED <<selectedIndex, indexData, selectedBucket, selectedCategory,
                   selectedSubChart, compareMode, isFetching, wired, topbarDom>>
    /\ UNCHANGED <<subscriptions, chartLoads>>
    /\ UNCHANGED snapshot

SubChartClick(id) ==
    /\ CanClick
    /\ id \in Range(page.tabs)
    /\ selectedSubChart' = id
    /\ tasks' = Append(tasks,
                       [RenderTask(selectedIndex, selectedBucket, selectedCategory,
                                   id, gammaChartMode)
                           EXCEPT !.caller = IF id = page.container
                                             THEN "sameSubChart" ELSE "subChart"])
    /\ page' = LoadingPage
    /\ last' = [BaseLast EXCEPT !.op = "subChartClick", !.ok = TRUE,
                                !.subChart = selectedSubChart]
    /\ clicks' = clicks + 1
    /\ UNCHANGED <<selectedIndex, indexData, selectedBucket, selectedCategory,
                   gammaChartMode, compareMode, isFetching, wired, topbarDom>>
    /\ UNCHANGED <<subscriptions, chartLoads>>
    /\ UNCHANGED snapshot

----------------------------------------------------------------------------
(* dashboard.js with lazily loaded chart tabs: every chart of the category *)
(* has a tab and a panel, the pass loads the first chart and a tab click   *)
(* loads the chart of a tab that _loadedCharts does not hold.              *)

TabsStructure(bucket, category) ==
    CASE bucket = "Exposure" /\ category = "Gamma" ->
            << [key |-> "gex", id |-> "chart-gex"] >>
      [] bucket = "Others" /\ category = "Volatility" ->
            << [key |-> "iv_smile", id |-> "chart-iv-smile"],
               [key |-> "rr_bf", id |-> "chart-rr-bf"] >>
      [] bucket = "Others" /\ category = "Quant" ->
            << [key |-> "quant_power", id |-> "chart-quant-power"],
               [key |-> "regime", id |-> "chart-regime"] >>
      [] OTHER -> << >>

\* (chart.key === 'gex') ? gammaChartMode : 'net'
TabsModeFor(chartKey, storedMode) == IF chartKey = "gex" THEN storedMode ELSE "net"

\* The markup of a successful pass; buildChartTabs() reads the store as it is
\* now and makes the first tab and panel the active ones.
TabsMarkup(task) ==
    LET charts == TabsStructure(selectedBucket, selectedCategory)
    IN  [view |-> "dashboard",
         index |-> task.index,
         bucket |-> selectedBucket,
         category |-> selectedCategory,
         modeSel |-> (task.category = "Gamma"),
         tabs |-> [k \in 1..Len(charts) |-> charts[k].id],
         container |-> IF Len(charts) = 0 THEN None ELSE charts[1].id,
         chart |-> NoChart,
         panels |-> [k \in 1..Len(charts) |-> [NoChart EXCEPT !.status = "placeholder"]],
         form |-> NoForm]

\* document.getElementById(containerId).innerHTML = content, when it exists
WithPanel(markup, containerId, content) ==
    [markup EXCEPT !.panels =
        [k \in DOMAIN markup.panels |->
            IF markup.tabs[k] = containerId THEN content ELSE markup.panels[k]]]

\* Every tab click loads its chart.
NeverLoaded(targetId) == TRUE

\* !_loadedCharts.has(targetId)
NotLoaded(targetId) == targetId \notin loadedCharts

TabsRenderResponse(k, outcome) ==
    /\ k \in 1..Len(tasks)
    /\ tasks[k].kind = "render"
    /\ outcome \in {"ok", "No data loaded", "other"}
    /\ LET task == tasks[k]
           activeCharts == TabsStructure(task.bucket, task.category)
           first == activeCharts[1]
           mode == DefaultMode(TabsModeFor(first.key, task.mode))
           issued == outcome = "ok" /\ Len(activeCharts) > 0
       IN  /\ IF outcome = "ok"
              THEN IF Len(activeCharts) > 0
                   THEN /\ page' = WithPanel(TabsMarkup(task), first.id,
                                             [NoChart EXCEPT !.status = "loading"])
                        /\ tasks' = Append(Without(tasks, k),
                                           ChartTask(task.index, first.key, first.id, mode))
                        /\ loadedCharts' = {first.id}
                        /\ requested' = Requested(NoRequests, first.id)
                   ELSE /\ page' = TabsMarkup(task)
                        /\ tasks' = Without(tasks, k)
                        /\ requested' = NoRequests
                        /\ UNCHANGED loadedCharts
              ELSE /\ page' = FailedPage(outcome)
                   /\ tasks' = Without(tasks, k)
                   /\ UNCHANGED chartLoads
           /\ last' = [BaseLast EXCEPT
                          !.op = "render", !.index = task.index,
                          !.ok = (outcome = "ok"), !.stored = task.mode,
                          !.outcome = outcome,
                          !.chartKey = IF issued THEN first.key ELSE None,
                          !.mode = IF issued THEN mode ELSE None]
    /\ UNCHANGED clicks
    /\ UNCHANGED <<selectedIndex, indexData, storeNav, compareMode, isFetching,
                   wired, topbarDom>>
    /\ UNCHANGED subscriptions
    /\ UNCHANGED snapshot

\* fetchAndRender from the answer of API.getChart on: every chart of the
\* category has its container in the page.
TabsChartResponse(k, ok, readable) ==
    /\ k \in 1..Len(tasks)
    /\ tasks[k].kind = "getChart"
    /\ ~ok => readable
    /\ LET task == tasks[k]
           exists == page.view = "dashboard" /\ task.chartId \in Range(page.tabs)
       IN  /\ page' = WithPanel(page, task.chartId, ChartPanel(task, ok, readable))
           /\ last' = [BaseLast EXCEPT !.op = "chart", !.index = task.index, !.ok = ok,
                                       !.chartKey = task.chartKey, !.mode = task.mode,
                                       !.drawn = (exists /\ ok /\ readable),
                                       !.present = exists,
                                       !.readable = readable]
    /\ tasks' = Without(tasks, k)
    /\ UNCHANGED clicks
    /\ UNCHANGED <<selectedIndex, indexData, storeNav, compareMode, isFetching,
                   wired, topbarDom>>
    /\ UNCHANGED <<subscriptions, chartLoads>>
    /\ UNCHANGED snapshot

\* _wireAnalysisNav: the bucket and the category handlers name no sub-chart
TabsBucketClick(bucket) ==
    /\ CanClick
    /\ bucket \in Range(Buckets)
    /\ LET firstCat == CategoriesOf(bucket)[1]
       IN  /\ selectedBucket' = bucket
           /\ selectedCategory' = firstCat
           /\ tasks' = Append(tasks, RenderTask(selectedIndex, bucket, firstCat,
                                                selectedSubChart, gammaChartMode))
    /\ page' = LoadingPage
    /\ last' = [BaseLast EXCEPT !.op = "bucketClick", !.ok = TRUE, !.bucket = bucket,
                                !.subChart = selectedSubChart]
    /\ clicks' = clicks + 1
    /\ UNCHANGED <<selectedIndex, indexData, selectedSubChart, gammaChartMode,
                   compareMode, isFetching, wired, topbarDom>>
    /\ UNCHANGED <<subscriptions, chartLoads>>
    /\ UNCHANGED snapshot

TabsCategoryClick(cat) ==
    /\ CanClick
    /\ cat \in Range(CategoriesOf(page.bucket))
    /\ selectedCategory' = cat
    /\ tasks' = Append(tasks, RenderTask(selectedIndex, selectedBucket, cat,
                                         selectedSubChart, gammaChartMode))
    /\ page' = LoadingPage
    /\ last' = [BaseLast EXCEPT !.op = "categoryClick", !.ok = TRUE,
                                !.bucket = selectedBucket, !.category = cat,
                                !.subChart = selectedSubChart]
    /\ clicks' = clicks + 1
    /\ UNCHANGED <<selectedIndex, indexData, selectedBucket, selectedSubChart,
                   gammaChartMode, compareMode, isFetching, wired, topbarDom>>
    /\ UNCHANGED <<subscriptions, chartLoads>>
    /\ UNCHANGED snapshot

\* _wireTabNav(index): the click on a tab button; `index` is the one the pass
\* that built the tabs had captured.
TabClick(targetId) ==
    /\ CanClick
    /\ targetId \in Range(page.tabs)
    /\ LET charts == TabsStructure(selectedBucket, selectedCategory)
           found == targetId \in Ids(charts)
           chart == charts[CHOOSE k \in 1..Len(charts) : charts[k].id = targetId]
           mode == DefaultMode(TabsModeFor(chart.key, gammaChartMode))
           load == NotLoaded(targetId) /\ found
           active == [page EXCEPT !.container = targetId]
       IN  /\ page' = IF load
                      THEN WithPanel(active, targetId, [NoChart EXCEPT !.status = "loading"])
                      ELSE active
           /\ tasks' = IF load
                       THEN Append(tasks, ChartTask(page.index, chart.key, targetId, mode))
                       ELSE tasks
           /\ loadedCharts' = IF load THEN loadedCharts \cup {targetId} ELSE loadedCharts
           /\ requested' = IF load THEN Requested(requested, targetId) ELSE requested
           /\ last' = [BaseLast EXCEPT !.op = "tabClick", !.ok = TRUE,
                                       !.index = page.index, !.subChart = targetId,
                                       !.chartKey = IF load THEN chart.key ELSE None,
                                       !.mode = IF load THEN mode ELSE None,
                                       !.again = (targetId \in requested.once)]
    /\ clicks' = clicks + 1
    /\ UNCHANGED <<selectedIndex, indexData, storeNav, compareMode, isFetching,
                   wired, topbarDom>>
    /\ UNCHANGED subscriptions
    /\ UNCHANGED snapshot

----------------------------------------------------------------------------
(* state.js: the store as its clients call it *)

\* The patches a client passes to set
Patches ==
    { [selectedIndex |-> "BankNifty"],
      [gammaChartMode |-> "raw", compareMode |-> TRUE],
      [selectedIndex |-> "Nifty", gammaChartMode |-> "net"] }

\* The data a client passes to setIndexData
IndexPatches == { [selectedExpiry |-> "2024-02-01", selectedFile |-> "t3"] }

Notified(called, state) == [k \in 1..Len(called) |-> [fn |-> called[k], saw |-> state]]

\* set(patch)
Set(patch) ==
    /\ patch \in Patches
    /\ LET merged == Merge(StoreState, patch)
           called == ForEach(listeners)
       IN  /\ selectedIndex' = merged.selectedIndex
           /\ indexData' = merged.indexData
           /\ selectedBucket' = merged.selectedBucket
           /\ selectedCategory' = merged.selectedCategory
           /\ selectedSubChart' = merged.selectedSubChart
           /\ gammaChartMode' = merged.gammaChartMode
           /\ compareMode' = merged.compareMode
           /\ last' = [BaseLast EXCEPT !.op = "set", !.ok = ~Threw(called),
                                       !.patch = patch, !.before = StoreState,
                                       !.registered = listeners,
                                       !.notified = Notified(called, merged)]
    /\ UNCHANGED <<isFetching, wired, topbarDom, page, tasks, clicks>>
    /\ UNCHANGED <<subscriptions, chartLoads>>
    /\ UNCHANGED snapshot

\* The index arguments of a client: an index of the store, none, and an
\* index that indexData holds no record for.
IndexArguments == IndexSet \cup {Undefined, "Midcap"}

\* setIndexData(index, data)
SetIndexData(index, data) ==
    /\ index \in IndexArguments
    /\ data \in IndexPatches
    /\ LET called == ForEach(listeners)
           merged == [StoreState EXCEPT !.indexData = setIndexData(index, data)]
       IN  /\ indexData' = setIndexData(index, data)
           /\ last' = [BaseLast EXCEPT !.op = "setIndexData", !.ok = ~Threw(called),
                                       !.index = index,
                                       !.target = Target(index), !.data = data,
                                       !.patch = [indexData |-> setIndexData(index, data)],
                                       !.before = StoreState,
                                       !.registered = listeners,
                                       !.notified = Notified(called, merged)]
    /\ snapshot' = Detached(snapshot, Target(index))
    /\ UNCHANGED <<selectedIndex, storeNav, compareMode, isFetching, wired,
                   topbarDom, page, tasks, clicks>>
    /\ UNCHANGED <<subscriptions, chartLoads>>

\* get(): return { ..._state }
Get ==
    /\ ~snapshot.taken
    /\ snapshot' = [taken |-> TRUE, top |-> StoreState, frozen |-> indexData,
                    sharesIndexData |-> TRUE, sharesRecords |-> DOMAIN indexData,
                    original |-> StoreState]
    /\ last' = [BaseLast EXCEPT !.op = "get", !.ok = TRUE]
    /\ UNCHANGED <<selectedIndex, indexData, storeNav, compareMode, isFetching,
                   wired, topbarDom, page, tasks, clicks>>
    /\ UNCHANGED <<subscriptions, chartLoads>>

\* subscribe(fn): returns the closure () => _listeners.delete(fn)
Subscribe(fn) ==
    /\ fn \in Subscribers
    /\ Len(closures) < MaxClosures
    /\ listeners' = Add(listeners, fn)
    /\ closures' = Append(closures, [fn |-> fn, called |-> FALSE])
    /\ last' = [BaseLast EXCEPT !.op = "subscribe", !.ok = TRUE, !.fn = fn,
                                !.registered = listeners]
    /\ UNCHANGED <<selectedIndex, indexData, storeNav, compareMode, isFetching,
                   wired, topbarDom, page, tasks, clicks>>
    /\ UNCHANGED chartLoads
    /\ UNCHANGED snapshot

\* A call of the c-th closure that subscribe has returned
Unsubscribe(c) ==
    /\ c \in DOMAIN closures
    /\ listeners' = Delete(listeners, closures[c].fn)
    /\ closures' = [closures EXCEPT ![c].called = TRUE]
    /\ last' = [BaseLast EXCEPT !.op = "unsubscribe", !.ok = TRUE,
                                !.fn = closures[c].fn,
                                !.again = closures[c].called,
                                !.registered = listeners]
    /\ UNCHANGED <<selectedIndex, indexData, storeNav, compareMode, isFetching,
                   wired, topbarDom, page, tasks, clicks>>
    /\ UNCHANGED chartLoads
    /\ UNCHANGED snapshot

----------------------------------------------------------------------------
(* The program *)

Categories == {"Gamma", "Delta", "Vanna", "Volatility", "Quant"}

RenderOutcomes == {"ok", "No data loaded", "other"}

\* The topbar controls of app.js and the render passes they start.
Next ==
    \/ \E k \in DOMAIN tasks, ok \in BOOLEAN, status \in StatusResults :
           StatusResponse(k, ok, status)
    \/ \E i \in IndexSet : IndexChange(i)
    \/ \E k \in DOMAIN expirySel.opts : ExpiryChange(k)
    \/ \E k \in DOMAIN fileSel.opts : FileChange(k)
    \/ \E k \in DOMAIN fileSel2.opts : File2Change(k)
    \/ FetchClick
    \/ CompareClick
    \/ \E k \in DOMAIN tasks, ok \in BOOLEAN : FetchLiveResponse(k, ok)
    \/ \E k \in DOMAIN tasks, ok \in BOOLEAN :
           \E filesDict \in CatalogsOf(tasks[k].index) : RefreshResponse(k, ok, filesDict)
    \/ \E k \in DOMAIN tasks, ok \in BOOLEAN : LoadResponse(k, ok)
    \/ \E k \in DOMAIN tasks, outcome \in RenderOutcomes : RenderResponse(k, outcome)

Spec == Init /\ [][Next]_vars

\* The dashboard page: its navigation, its render passes and chart requests,
\* with the index selector and the start-up that leads to the first pass.
NextDash ==
    \/ \E k \in DOMAIN tasks, ok \in BOOLEAN, status \in StatusResults :
           StatusResponse(k, ok, status)
    \/ \E k \in DOMAIN tasks, ok \in BOOLEAN :
           \E filesDict \in CatalogsOf(tasks[k].index) : RefreshResponse(k, ok, filesDict)
    \/ \E i \in IndexSet : IndexChange(i)
    \/ \E k \in DOMAIN tasks, outcome \in RenderOutcomes : RenderResponse(k, outcome)
    \/ \E k \in DOMAIN tasks, ok \in BOOLEAN, readable \in BOOLEAN :
           ChartResponse(k, ok, readable)
    \/ clicks < MaxClicks /\ \E b \in Range(Buckets) : BucketClick(b)
    \/ clicks < MaxClicks /\ \E c \in Categories : CategoryClick(c)
    \/ clicks < MaxClicks /\ \E m \in {"net", "raw"} : ModeClick(m)
    \/ clicks < MaxClicks /\ \E id \in Range(page.tabs) : SubChartClick(id)

SpecDash == Init /\ [][NextDash]_vars

\* The analysis navigation alone, on the index selected at start: the
\* start-up that leads to the first pass, the clicks of the rendered page,
\* the render passes and the chart requests.
NextNav ==
    \/ \E k \in DOMAIN tasks, ok \in BOOLEAN, status \in StatusResults :
           StatusResponse(k, ok, status)
    \/ \E k \in DOMAIN tasks, ok \in BOOLEAN :
           \E filesDict \in CatalogsOf(tasks[k].index) : RefreshResponse(k, ok, filesDict)
    \/ \E k \in DOMAIN tasks, outcome \in RenderOutcomes : RenderResponse(k, outcome)
    \/ \E k \in DOMAIN tasks, ok \in BOOLEAN, readable \in BOOLEAN :
           ChartResponse(k, ok, readable)
    \/ \E b \in Range(Buckets) : BucketClick(b)
    \/ \E c \in Categories : CategoryClick(c)
    \/ \E m \in {"net", "raw"} : ModeClick(m)
    \/ \E id \in Range(page.tabs) : SubChartClick(id)

SpecNav == Init /\ [][NextNav]_vars

\* The dashboard page with lazily loaded chart tabs, with the index selector
\* and the start-up that leads to the first pass.  The figures answered here
\* are readable: what a panel shows plays no part in which requests leave.
NextTabs ==
    \/ \E k \in DOMAIN tasks, ok \in BOOLEAN, status \in StatusResults :
           StatusResponse(k, ok, status)
    \/ \E k \in DOMAIN tasks, ok \in BOOLEAN :
           \E filesDict \in CatalogsOf(tasks[k].index) : RefreshResponse(k, ok, filesDict)
    \/ \E i \in IndexSet : IndexChange(i)
    \/ \E k \in DOMAIN tasks, outcome \in RenderOutcomes : TabsRenderResponse(k, outcome)
    \/ \E k \in DOMAIN tasks, ok \in BOOLEAN : TabsChartResponse(k, ok, TRUE)
    \/ clicks < MaxClicks /\ \E b \in Range(Buckets) : TabsBucketClick(b)
    \/ clicks < MaxClicks /\ \E c \in Categories : TabsCategoryClick(c)
    \/ clicks < MaxClicks /\ \E m \in {"net", "raw"} : ModeClick(m)
    \/ \E id \in Range(page.tabs) : TabClick(id)

SpecTabs == Init /\ [][NextTabs]_vars

\* The store, called by a client that registers and removes subscribers.
NextStore ==
    \/ \E patch \in Patches : Set(patch)
    \/ \E i \in IndexArguments, data \in IndexPatches : SetIndexData(i, data)
    \/ \E fn \in Subscribers : Subscribe(fn)
    \/ \E c \in DOMAIN closures : Unsubscribe(c)

SpecStore == Init /\ [][NextStore]_vars

\* One render pass over a store whose navigation keys are whatever State.set
\* calls have left there: render(container) is called, the data fetch is
\* answered, the chart request is answered.
SubChartValues ==
    {Undefined, Null, "chart-gex", "chart-cum-gex", "chart-iv-smile", "chart-rr-bf",
     "chart-regime", "chart-unknown"}

InitPass ==
    /\ selectedIndex \in IndexSet
    /\ indexData = InitialIndexData
    /\ selectedBucket \in Range(Buckets) \cup {Undefined}
    /\ selectedCategory \in Categories \cup {Undefined}
    /\ selectedSubChart \in SubChartValues
    /\ gammaChartMode \in {Undefined, "net", "raw"}
    /\ compareMode = FALSE
    /\ isFetching = FALSE
    /\ wired = TRUE
    /\ expirySel = EmptySelect
    /\ fileSel = EmptySelect
    /\ fileSel2 = EmptySelect
    /\ fileSel2Shown = FALSE
    /\ page = LoadingPage
    /\ tasks = <<RenderNow(selectedIndex)>>
    /\ clicks = 0
    /\ domIndex = None
    /\ last = BaseLast
    /\ listeners = << >>
    /\ closures = << >>
    /\ loadedCharts = {}
    /\ requested = NoRequests
    /\ snapshot = NoSnapshot

NextPass ==
    \/ \E k \in DOMAIN tasks, outcome \in RenderOutcomes : RenderResponse(k, outcome)
    \/ \E k \in DOMAIN tasks, ok \in BOOLEAN, readable \in BOOLEAN :
           ChartResponse(k, ok, readable)

SpecPass == InitPass /\ [][NextPass]_vars

\* The Data Management page next to the topbar: the start-up, the expiry and
\* file selectors and their load request, the page and its fetch button.
NextData ==
    \/ \E k \in DOMAIN tasks, ok \in BOOLEAN, status \in StatusResults :
           StatusResponse(k, ok, status)
    \/ \E k \in DOMAIN tasks, ok \in BOOLEAN :
           \E filesDict \in CatalogsOf(tasks[k].index) : RefreshResponse(k, ok, filesDict)
    \/ \E k \in DOMAIN tasks, outcome \in RenderOutcomes : RenderResponse(k, outcome)
    \/ \E k \in DOMAIN expirySel.opts : ExpiryChange(k)
    \/ \E k \in DOMAIN fileSel.opts : FileChange(k)
    \/ \E k \in DOMAIN tasks, ok \in BOOLEAN : LoadResponse(k, ok)
    \/ Navigate
    \/ \E k \in DOMAIN tasks, ok \in BOOLEAN :
           \E filesDict \in CatalogsOf(tasks[k].index) : DataFormResponse(k, ok, filesDict)
    \/ DataFetchClick
    \/ \E k \in DOMAIN tasks, ok \in BOOLEAN, results \in FetchResults :
           DataFetchResponse(k, ok, results)
    \/ DataLoadClick
    \/ \E k \in DOMAIN tasks, ok \in BOOLEAN : DataLoadResponse(k, ok)

SpecData == Init /\ [][NextData]_vars

\* The store, called by a client that keeps an object get() has returned.
NextSnapshot ==
    \/ Get
    \/ \E patch \in Patches : Set(patch)
    \/ \E i \in IndexArguments, data \in IndexPatches : SetIndexData(i, data)

SpecSnapshot == Init /\ [][NextSnapshot]_vars

----------------------------------------------------------------------------
(* What the claims speak of *)

Selection(record) ==
    <<record.selectedExpiry, record.selectedFile, record.selectedFile2>>

RefreshDone == last.op = "refresh" /\ last.ok

CatalogKeys(filesDict) == {filesDict[k][1] : k \in 1..Len(filesDict)}

\* the lexically greatest key of a catalog that has one
Latest(filesDict) ==
    CHOOSE e \in CatalogKeys(filesDict) :
        \A f \in CatalogKeys(filesDict) : f = e \/ LexLess(f, e)

ExampleCatalog ==
    << <<"2024-01-25", <<"t1", "t2">> >>, <<"2024-02-01", <<"t3">> >> >>

\* the (index, chartKey, mode) the store selects now; no chart when the
\* active category has none
CurrentChart ==
    LET charts == ChartsOf(selectedBucket, selectedCategory)
        key == ActiveChart(charts, selectedSubChart).key
    IN  IF Len(charts) = 0 THEN <<selectedIndex, None, None>>
        ELSE <<selectedIndex, key,
               IF key \in {"gex", "cum_gex"} /\ gammaChartMode = "raw"
               THEN "raw" ELSE "net">>

----------------------------------------------------------------------------
(* FileCatalogSync.refresh and the index partition *)

\* C1: a refresh that a later refresh of the same index has overtaken (the
\* later one has already written its result) leaves selectedExpiry,
\* selectedFile and selectedFile2 of that index as they were.
C1_OvertakenRefreshWritesNothing ==
    (RefreshDone /\ last.superseded)
        => Selection(indexData[last.index]) = Selection(last.prev)

\* C4: an index transition to j, the catalog refresh it starts and the
\* re-render that follows change the record of no index other than j.
C4_IndexTransitionFrame ==
    [][/\ (last'.op = "indexChange" \/ (last'.op = "refresh" /\ last'.caller = "index"))
             => \A i \in IndexSet \ {last'.index} : indexData'[i] = indexData[i]
       /\ last'.op = "render" => indexData' = indexData]_vars

\* C4, its case: the catalog of BankNifty arrives after the user has moved on
\* to another index, and is written.
C4_Witness ==
    /\ RefreshDone
    /\ last.caller = "index"
    /\ last.index = "BankNifty"
    /\ selectedIndex # "BankNifty"
    /\ Selection(indexData["BankNifty"]) # Selection(last.prev)

\* C5: an expiry or file name that the expiry, file and second-file handlers
\* write to the selected index (and send in its load request) was read from
\* dropdowns that were filled from that index's own catalog.
C5_DropdownsBelongToSelectedIndex ==
    (\/ last.op = "expiryChange" /\ ~Falsy(last.expiry)
     \/ last.op \in {"fileChange", "file2Change"} /\ ~Falsy(last.filename))
        => last.src = last.index

\* C6: after a successful refresh selectedExpiry is the persisted value when
\* it is a key of the catalog, else the lexically greatest key, else empty.
C6_ExpiryResolution ==
    RefreshDone =>
        indexData[last.index].selectedExpiry =
            IF last.prev.selectedExpiry \in CatalogKeys(last.catalog)
            THEN last.prev.selectedExpiry
            ELSE IF CatalogKeys(last.catalog) # {} THEN Latest(last.catalog)
            ELSE ""

\* C7: after a successful refresh selectedFile is the persisted value when it
\* is in the file list of the resolved expiry, else the first file of that
\* list, else empty.
C7_FileResolution ==
    RefreshDone =>
        LET files == Lookup(last.catalog, indexData[last.index].selectedExpiry)
        IN  indexData[last.index].selectedFile =
                IF last.prev.selectedFile \in Range(files) THEN last.prev.selectedFile
                ELSE IF Len(files) > 0 THEN files[1]
                ELSE ""

\* C8: with no selection persisted, a successful refresh persists the
\* lexically greatest expiry of the catalog and the first file listed under
\* it; over the example catalog that is "2024-02-01" and "t3".
C8_DefaultsWithoutSelection ==
    (RefreshDone /\ Falsy(last.prev.selectedExpiry) /\ Falsy(last.prev.selectedFile)
     /\ CatalogKeys(last.catalog) # {})
        => LET record == indexData[last.index]
               files == Lookup(last.catalog, Latest(last.catalog))
           IN  /\ record.selectedExpiry = Latest(last.catalog)
               /\ Len(files) > 0 => record.selectedFile = files[1]
               /\ last.catalog = ExampleCatalog
                     => record.selectedExpiry = "2024-02-01" /\ record.selectedFile = "t3"

C8_Witness ==
    /\ RefreshDone
    /\ last.catalog = ExampleCatalog
    /\ Falsy(last.prev.selectedExpiry)
    /\ Falsy(last.prev.selectedFile)
    /\ indexData[last.index].selectedExpiry = "2024-02-01"
    /\ indexData[last.index].selectedFile = "t3"

\* C9: a persisted selectedExpiry that is still a key of the fetched catalog
\* is left unchanged by the refresh, also when the catalog has a later one.
C9_PersistedExpiryKept ==
    (RefreshDone /\ ~Falsy(last.prev.selectedExpiry)
     /\ last.prev.selectedExpiry \in CatalogKeys(last.catalog))
        => indexData[last.index].selectedExpiry = last.prev.selectedExpiry

C9_Witness ==
    /\ RefreshDone
    /\ last.prev.selectedExpiry = "2024-01-25"
    /\ last.catalog = ExampleCatalog
    /\ indexData[last.index].selectedExpiry = "2024-01-25"

\* C10: after a successful refresh selectedFile2 is the persisted value when
\* it is in the resolved file list, else the second file of a list of two or
\* more, else the resolved selectedFile.
C10_File2Resolution ==
    RefreshDone =>
        LET record == indexData[last.index]
            files == Lookup(last.catalog, record.selectedExpiry)
        IN  record.selectedFile2 =
                IF last.prev.selectedFile2 \in Range(files) THEN last.prev.selectedFile2
                ELSE IF Len(files) >= 2 THEN files[2]
                ELSE record.selectedFile

----------------------------------------------------------------------------
(* ChartLoader and the navigation *)

\* C2: a chart payload is drawn only when the (index, chartKey, mode) it was
\* requested for is the selection of the store when the response arrives.
C2_OnlyCurrentChartDrawn ==
    (last.op = "chart" /\ last.drawn)
        => <<last.index, last.chartKey, last.mode>> = CurrentChart

\* C3: selectedSubChart is absent, null, or the id of a chart of the selected
\* (bucket, category).
C3_SubChartBelongsToCategory ==
    selectedSubChart \in
        {Undefined, Null} \cup Ids(ChartsOf(selectedBucket, selectedCategory))

\* C3, its case: a category transition has reset the subchart to the first
\* chart of the new category.
C3_Witness ==
    /\ last.op = "categoryClick"
    /\ selectedBucket = "Others"
    /\ selectedCategory = "Quant"
    /\ selectedSubChart = "chart-quant-power"

----------------------------------------------------------------------------
(* C11: when the catalog request of a refresh fails, the step that delivers *)
(* the failure changes no key of the store: selectedIndex, every record of *)
(* indexData (selectedExpiry, selectedFile, selectedFile2, hasData,        *)
(* loadedFile, expiry), the navigation keys and compareMode are what they  *)
(* were before.                                                            *)
C11_FailedRefreshLeavesStoreUnchanged ==
    [][(last'.op = "refresh" /\ ~last'.ok)
          => UNCHANGED <<selectedIndex, indexData, storeNav, compareMode>>]_vars

\* A refresh has failed for an index that had a persisted selection and a
\* loaded snapshot, and the record is the one from before the call.
C11_Witness ==
    /\ last.op = "refresh" /\ ~last.ok
    /\ ~Falsy(last.prev.selectedExpiry) /\ ~Falsy(last.prev.selectedFile)
    /\ last.prev.hasData
    /\ indexData[last.index] = last.prev

----------------------------------------------------------------------------
(* C12: when the catalog request of a refresh fails, the caller that awaits *)
(* the refresh is told: what it receives differs from what it receives     *)
(* after a successful refresh.                                             *)
C12_FailedRefreshSurfaced ==
    (last.op = "refresh" /\ ~last.ok) => last.settled # RefreshSettles(TRUE)

----------------------------------------------------------------------------
(* C14: a click on the sub-chart tab that is already the active one, with  *)
(* no bucket or category change in between, issues no chart request: the   *)
(* render pass such a click starts ends without calling fetchAndRender.    *)
C14_SameSubChartIssuesNoRequest ==
    (last.op = "render" /\ last.caller = "sameSubChart") => last.chartKey = None

\* the chart keys of the exposure family: the charts of the bucket Exposure
ExposureFamily ==
    UNION { {ANALYSIS_STRUCTURE("Exposure", c)[k].key :
                k \in 1..Len(ANALYSIS_STRUCTURE("Exposure", c))} :
            c \in Range(CategoriesOf("Exposure")) }

\* C15: the mode of the chart request a render pass issues is net for every
\* chart key outside the exposure family, whatever gammaChartMode the pass
\* read from the store; a stored net or raw is passed as it is for the keys
\* of the exposure family.
C15_ModeOnlyForExposureFamily ==
    (last.op = "render" /\ last.chartKey # None) =>
        /\ last.chartKey \notin ExposureFamily => last.mode = "net"
        /\ (last.chartKey \in ExposureFamily /\ last.stored \in {"net", "raw"})
              => last.mode = last.stored

\* A pass that read raw from the store has requested a chart outside the
\* exposure family.
C15_Witness ==
    /\ last.op = "render" /\ last.chartKey # None
    /\ last.chartKey \notin ExposureFamily
    /\ last.stored = "raw"
    /\ \E k \in DOMAIN tasks :
          tasks[k].kind = "getChart" /\ tasks[k].chartKey = last.chartKey
          /\ tasks[k].mode = "net"

\* the id of the first chart of a category of the structure, null without one
FirstIdOf(bucket, category) ==
    LET charts == ANALYSIS_STRUCTURE(bucket, category)
    IN  IF charts = << >> THEN Null ELSE charts[1].id

\* C16: a click on bucket b leaves selectedBucket = b, selectedCategory = the
\* first category declared for b, and selectedSubChart = the id of the first
\* chart of that category, or null when the category has no chart.
C16_BucketTransition ==
    last.op = "bucketClick" =>
        /\ selectedBucket = last.bucket
        /\ selectedCategory = CategoriesOf(last.bucket)[1]
        /\ selectedSubChart = FirstIdOf(last.bucket, CategoriesOf(last.bucket)[1])

\* A click on another bucket than the selected one, made while a chart other
\* than the first of its category was selected.
C16_Witness ==
    /\ last.op = "bucketClick"
    /\ last.bucket = "Others"
    /\ last.subChart = "chart-cum-gex"
    /\ selectedSubChart = "chart-iv-smile"

\* C17: a click on category c of the selected bucket leaves selectedCategory
\* = c and selectedBucket as it was, and selectedSubChart = the id of the
\* first chart of c, or null when c has no chart, whatever it was before.
C17_CategoryTransition ==
    (last.op = "categoryClick" /\ last.ok) =>
        /\ selectedCategory = last.category
        /\ selectedBucket = last.bucket
        /\ selectedSubChart = FirstIdOf(last.bucket, last.category)

\* A click on a category with charts made while the second chart of another
\* category was selected.
C17_Witness ==
    /\ last.op = "categoryClick" /\ last.ok
    /\ last.category = "Quant"
    /\ last.subChart = "chart-rr-bf"
    /\ selectedSubChart = "chart-quant-power"

----------------------------------------------------------------------------
(* C13: between two successive full re-renders of the dashboard no chart   *)
(* container id is requested more than once, however often its tab is      *)
(* clicked.                                                                *)
C13_OneRequestPerContainer == requested.more = {}

\* The tab of a chart that a tab click had loaded in this pass has been
\* clicked again, and no request has left.
C13_Witness ==
    /\ last.op = "tabClick" /\ last.again
    /\ last.subChart = "chart-rr-bf"
    /\ last.chartKey = None
    /\ requested.once = {"chart-iv-smile", "chart-rr-bf"}

----------------------------------------------------------------------------
(* ReactiveStore *)

\* the functions a notification has called, in the order of the calls
CalledFns == [k \in 1..Len(last.notified) |-> last.notified[k].fn]

\* the store holds the keys of the patch as the patch gives them and the
\* other keys as they were before the call
PatchApplied ==
    \A key \in DOMAIN StoreState :
        StoreState[key] = IF key \in DOMAIN last.patch THEN last.patch[key]
                          ELSE last.before[key]

\* C18: when a subscriber throws during the notification of set or of
\* setIndexData, every subscriber registered at the call has still been
\* called for that update, and the merge is applied.
C18_ThrowingSubscriberIsolated ==
    (last.op \in {"set", "setIndexData"} /\ ~last.ok) =>
        /\ \A k \in 1..Len(last.registered) :
              \E j \in 1..Len(CalledFns) : CalledFns[j] = last.registered[k]
        /\ PatchApplied

\* C19: a call of set(patch) that returns has replaced exactly the top-level
\* keys named in patch, and has then called every subscriber registered at
\* the call exactly once, in registration order, each with the merged state.
C19_SetMergesThenNotifies ==
    (last.op = "set" /\ last.ok) =>
        /\ PatchApplied
        /\ CalledFns = last.registered
        /\ \A k \in 1..Len(last.notified) : last.notified[k].saw = StoreState

\* set has returned after a patch that changed a key and left others, with
\* two subscribers registered.
C19_Witness ==
    /\ last.op = "set" /\ last.ok
    /\ Len(last.registered) = 2
    /\ last.before.selectedIndex # selectedIndex
    /\ "gammaChartMode" \notin DOMAIN last.patch

\* C20: a call of the closure that subscribe(fn) returned leaves fn out of
\* the listeners, and a repeated call of the same closure changes nothing.
C20_UnsubscribeIdempotent ==
    last.op = "unsubscribe" =>
        /\ \A k \in 1..Len(listeners) : listeners[k] # last.fn
        /\ last.again => listeners = last.registered

\* C21: setIndexData(index, data) changes only the fields named in data of
\* the record of index, or of selectedIndex when index is omitted: the other
\* fields of that record, the records of the other indices and the other
\* top-level keys are what they were before the call.
C21_SetIndexDataFrame ==
    last.op = "setIndexData" =>
        LET target == IF last.index \in {"", Undefined, Null}
                      THEN last.before.selectedIndex ELSE last.index
            was == last.before.indexData
        IN  /\ \A key \in (DOMAIN StoreState) \ {"indexData"} :
                  StoreState[key] = last.before[key]
            /\ DOMAIN indexData = (DOMAIN was) \cup {target}
            /\ \A i \in (DOMAIN was) \ {target} : indexData[i] = was[i]
            /\ \A f \in DOMAIN last.data : indexData[target][f] = last.data[f]
            /\ target \in DOMAIN was =>
                  /\ DOMAIN indexData[target] = (DOMAIN was[target]) \cup (DOMAIN last.data)
                  /\ \A f \in (DOMAIN was[target]) \ (DOMAIN last.data) :
                        indexData[target][f] = was[target][f]

\* setIndexData was called without an index while BankNifty was selected and
\* the record of another index had been written before.
C21_Witness ==
    /\ last.op = "setIndexData" /\ last.index = Undefined
    /\ selectedIndex = "BankNifty"
    /\ indexData["BankNifty"].selectedFile = "t3"
    /\ indexData["BankNifty"].hasData = FALSE
    /\ last.before.indexData["BankNifty"].selectedFile = ""
    /\ indexData["Nifty"].selectedFile = "t3"

\* C22: for an index that indexData holds no record for, getIndexData gives
\* the fallback record {hasData: false, loadedFile: '', expiry: ''}, and
\* after setIndexData(index, data) on such an index the record read back is
\* the fallback record with the fields of data over it.
C22_FallbackRecordKept ==
    /\ \A i \in IndexArguments \ {Undefined} :
          i \notin DOMAIN indexData =>
              getIndexData(i) = [hasData |-> FALSE, loadedFile |-> "", expiry |-> ""]
    /\ (last.op = "setIndexData" /\ last.target \notin DOMAIN last.before.indexData) =>
          LET record == getIndexData(last.target)
          IN  /\ {"hasData", "loadedFile", "expiry"} \subseteq DOMAIN record
              /\ record.hasData = FALSE /\ record.loadedFile = "" /\ record.expiry = ""
              /\ \A f \in DOMAIN last.data : record[f] = last.data[f]

\* C23: what get() has returned is a snapshot: no later call of set or of
\* setIndexData changes a field a client reads through it, the records of
\* the indices included.
C23_SnapshotUnchanged == snapshot.taken => View(snapshot) = snapshot.original

\* After get() returned, set has changed a top-level key and setIndexData
\* has changed the records of two indices, the one selected at get() included.
C23_Witness ==
    /\ snapshot.taken
    /\ selectedIndex # snapshot.original.selectedIndex
    /\ indexData["Nifty"] # snapshot.original.indexData["Nifty"]
    /\ indexData["BankNifty"] # snapshot.original.indexData["BankNifty"]
    /\ last.op = "setIndexData"

----------------------------------------------------------------------------
(* NavigationController *)

\* C24: a load-snapshot request is pending only for a non-empty expiry and a
\* non-empty filename; when the request has succeeded, the record of the
\* index it was issued for has hasData = true and the loadedFile and expiry
\* the endpoint returned, and a render pass of the dashboard has started.
C24_LoadSnapshot ==
    /\ \A k \in DOMAIN tasks :
          tasks[k].kind = "loadFile" =>
              /\ tasks[k].expiry \notin {"", Undefined, Null, None}
              /\ tasks[k].filename \notin {"", Undefined, Null, None}
    /\ (last.op = "load" /\ last.ok) =>
          /\ indexData[last.index].hasData = TRUE
          /\ indexData[last.index].loadedFile = last.data.filepath
          /\ indexData[last.index].expiry = last.data.expiry
          /\ page.view = "loading"
          /\ tasks # << >> /\ tasks[Len(tasks)].kind = "render"

\* A load issued for one index has succeeded after another index was
\* selected: the record of the first index holds the snapshot.
C24_Witness ==
    /\ last.op = "load" /\ last.ok
    /\ last.index # selectedIndex
    /\ indexData[last.index].hasData
    /\ indexData[last.index].loadedFile = last.filename
    /\ ~last.prev.hasData

CountOf(seq, kind) == Cardinality({k \in DOMAIN seq : seq[k].kind = kind})

\* C25: an index transition sets selectedIndex to the chosen index and starts
\* one catalog refresh, for that index, and no render pass; the completion of
\* that refresh, successful or not, starts one render pass and no refresh,
\* and the pass is for the index the store selects at that moment.
C25_IndexTransition ==
    [][ /\ last'.op = "indexChange" =>
              /\ selectedIndex' = last'.index
              /\ Len(tasks') = Len(tasks) + 1
              /\ SubSeq(tasks', 1, Len(tasks)) = tasks
              /\ tasks'[Len(tasks')].kind = "getFiles"
              /\ tasks'[Len(tasks')].index = last'.index
        /\ (last'.op = "refresh" /\ last'.caller = "index") =>
              /\ CountOf(tasks', "getFiles") = CountOf(tasks, "getFiles") - 1
              /\ CountOf(tasks', "render") = CountOf(tasks, "render") + 1
              /\ tasks'[Len(tasks')].kind = "render"
              /\ tasks'[Len(tasks')].index = selectedIndex'
      ]_vars

\* The refresh of an index transition has failed after another index was
\* chosen, and the pass it started is for the index selected now.
C25_Witness ==
    /\ last.op = "refresh" /\ last.caller = "index" /\ ~last.ok
    /\ last.index # selectedIndex
    /\ tasks[Len(tasks)].kind = "render"
    /\ tasks[Len(tasks)].index = selectedIndex

\* C26: an expiry or file transition ends with a re-render of the dashboard:
\* once the load request of the transition has been answered, with a snapshot
\* or with a failure, a render pass has been started.
C26_TransitionEndsWithRender ==
    last.op = "load" =>
        /\ tasks # << >>
        /\ tasks[Len(tasks)].kind = "render"
        /\ page.view = "loading"

----------------------------------------------------------------------------
(* ChartLoader *)

----------------------------------------------------------------------------
(* ViewRenderer *)

\* C28: a render pass whose data fetch fails with "No data loaded" leaves the
\* dedicated empty state, one that fails otherwise leaves the generic error
\* panel; either way the pass issues no chart request and leaves the store
\* as it was.
C28_FailedRender ==
    [][ (last'.op = "render" /\ ~last'.ok) =>
            /\ page'.view = IF last'.outcome = "No data loaded"
                            THEN "empty" ELSE "error"
            /\ page'.container = None
            /\ CountOf(tasks', "getChart") = CountOf(tasks, "getChart")
            /\ Len(tasks') = Len(tasks) - 1
            /\ StoreState' = StoreState
      ]_vars

\* After a click of the navigation, the pass it started has failed with
\* "No data loaded": the page is the empty state and no request is pending.
C28_Witness ==
    /\ last.op = "render" /\ last.outcome = "No data loaded"
    /\ selectedBucket # Undefined
    /\ page.view = "empty"
    /\ tasks = << >>

\* C29: whenever no catalog refresh is in flight, the secondary file selector
\* is shown exactly when compareMode is true.
C29_SelectorFollowsCompareMode ==
    (\A k \in DOMAIN tasks : tasks[k].kind # "getFiles") =>
        (fileSel2Shown <=> compareMode)

\* C30: a render pass, from the answer of its data fetch to the answer of
\* the chart request it has issued, leaves every key of the store as it was.
C30_RenderWritesNothing ==
    [][ last'.op \in {"render", "chart"} => StoreState' = StoreState ]_vars

\* A pass has requested its chart in the default mode for a store that
\* names no mode, the chart is drawn, and the store still names none.
C30_Witness ==
    /\ last.op = "chart" /\ last.drawn
    /\ page.chart.mode = "net"
    /\ gammaChartMode = Undefined

----------------------------------------------------------------------------
(* ReactiveStore: the records *)

\* C31: indexData holds a record for each index of the fixed index set in
\* every state, and no step removes a key from indexData.
C31_RecordsNeverDestroyed ==
    /\ [](IndexSet \subseteq DOMAIN indexData)
    /\ [][DOMAIN indexData \subseteq DOMAIN indexData']_vars

\* A record was created for a further index, and a later setIndexData for
\* an index of the fixed set has left it in place.
C31_Witness ==
    /\ last.op = "setIndexData" /\ last.target = "BankNifty"
    /\ DOMAIN indexData = IndexSet \cup {"Midcap"}
    /\ indexData["BankNifty"].selectedFile = "t3"

----------------------------------------------------------------------------
(* ViewRenderer: the chart of a pass *)

\* C32: the chart a render pass requests belongs to the chart list of the
\* (bucket, category) the pass read when it started: it is the chart whose
\* id is the selectedSubChart read then when the list has one, and the first
\* chart of the list otherwise; a pass over an empty list requests none.
C32_RequestedChartInCategory ==
    (last.op = "render" /\ last.ok) =>
        LET charts == ANALYSIS_STRUCTURE(last.bucket, last.category)
        IN  IF Len(charts) = 0
            THEN last.chartKey = None /\ tasks = << >>
            ELSE \E k \in 1..Len(charts) :
                    /\ tasks[Len(tasks)].kind = "getChart"
                    /\ tasks[Len(tasks)].chartKey = charts[k].key
                    /\ tasks[Len(tasks)].chartId = charts[k].id
                    /\ last.chartKey = charts[k].key
                    /\ IF \E j \in 1..Len(charts) : charts[j].id = last.subChart
                       THEN charts[k].id = last.subChart
                       ELSE k = 1

\* A pass over a store whose selectedSubChart belongs to another category
\* has requested the first chart of its own category.
C32_Witness ==
    /\ last.op = "render" /\ last.ok
    /\ last.bucket = "Others" /\ last.category = "Quant"
    /\ last.subChart = "chart-cum-gex"
    /\ tasks # << >>
    /\ tasks[1].chartId = "chart-quant-power"

\* C33: once every render pass has completed, and no request that will start
\* another one is pending, the dashboard on the page shows the metrics of the
\* index the store selects.
C33_ViewShowsCurrentSelection ==
    (/\ \A k \in DOMAIN tasks : tasks[k].kind = "getChart"
     /\ page.view = "dashboard") =>
        page.index = selectedIndex

\* C34: of two overlapping load requests for one index, the one issued last
\* decides loadedFile and expiry: the answer of the earlier request, arriving
\* after the later one has succeeded, leaves both fields as they were.
C34_LastIssuedLoadWins ==
    (last.op = "load" /\ last.ok /\ last.superseded) =>
        /\ indexData[last.index].loadedFile = last.prev.loadedFile
        /\ indexData[last.index].expiry = last.prev.expiry

\* C35: the answer of a failed load request leaves hasData, loadedFile and
\* expiry of every index as they were, starts no render pass and sends no
\* request; the controls and their options stay as they were, so the file
\* selector can issue another load.
C35_FailedLoad ==
    [][ (last'.op = "load" /\ ~last'.ok) =>
            /\ indexData' = indexData
            /\ CountOf(tasks', "render") = CountOf(tasks, "render")
            /\ CountOf(tasks', "loadFile") = CountOf(tasks, "loadFile") - 1
            /\ Len(tasks') = Len(tasks) - 1
            /\ page' = page
            /\ wired' /\ topbarDom' = topbarDom
      ]_vars

\* A load request has failed: the record of its index still reports no
\* data, nothing is pending, and the file selector offers another file.
C35_Witness ==
    /\ last.op = "load" /\ ~last.ok
    /\ ~indexData[last.index].hasData
    /\ tasks = << >>
    /\ wired /\ Len(fileSel.opts) > 1

----------------------------------------------------------------------------
(* The Fetch button *)

\* C36 as stated: the guard is released as soon as the fetchLive request has
\* been answered, so it is held only while such a request is in flight.
C36_GuardFollowsRequest ==
    isFetching => CountOf(tasks, "fetchLiveData") = 1

\* C36: at most one fetchLive request is in flight, and the guard is held
\* exactly while the click handler runs: while its fetchLive request is in
\* flight and, after a successful answer, while the catalog refresh of its
\* updateTopbar() is in flight; a failed answer, and the completion of that
\* refresh, release it.
C36_OneFetchInFlight ==
    /\ CountOf(tasks, "fetchLiveData") <= 1
    /\ isFetching <=>
          \E k \in DOMAIN tasks :
              \/ tasks[k].kind = "fetchLiveData"
              \/ tasks[k].kind = "getFiles" /\ tasks[k].caller = "fetch"
    /\ (last.op = "fetchLive" /\ ~last.ok) => ~isFetching
    /\ (last.op = "refresh" /\ last.caller = "fetch") => ~isFetching

\* The fetchLive request succeeded and the refresh that followed it has
\* failed: the guard is released and a render pass has started.
C36_Witness ==
    /\ last.op = "refresh" /\ last.caller = "fetch" /\ ~last.ok
    /\ ~isFetching
    /\ tasks # << >> /\ tasks[Len(tasks)].kind = "render"

----------------------------------------------------------------------------
(* FileCatalogSync: repeated refreshes *)

\* C37: a successful refresh that directly follows a successful refresh of
\* the same index over the same catalog leaves selectedExpiry, selectedFile
\* and selectedFile2 of the index as the first one left them.
C37_RefreshIdempotent ==
    (last.op = "refresh" /\ last.again) =>
        Selection(indexData[last.index]) = Selection(last.prev)

\* Two refreshes of Nifty over the catalog with two expiries have succeeded
\* one after the other, and the selection is the one resolved by the first.
C37_Witness ==
    /\ last.op = "refresh" /\ last.again
    /\ last.catalog = ExampleCatalog
    /\ Selection(indexData[last.index]) = <<"2024-02-01", "t3", "t3">>

----------------------------------------------------------------------------
(* The Data Management page *)

\* C40: when the fetch-all request has been answered, the records of exactly
\* the indices whose result reports success have hasData = true and the
\* loadedFile and expiry of their result, and keep their other fields; the
\* records of the indices whose result reports failure or that the results
\* do not name are as they were; when the request has failed every record is
\* as it was.
C40_FetchAllWritesSuccesses ==
    last.op = "fetchAll" =>
        LET before == last.before.indexData
            results == last.data
        IN  /\ DOMAIN indexData = DOMAIN before
            /\ \A i \in DOMAIN indexData :
                  IF last.ok /\ \E k \in DOMAIN results :
                                    results[k].index = i /\ results[k].success
                  THEN \E k \in DOMAIN results :
                          /\ results[k].index = i
                          /\ indexData[i].hasData = TRUE
                          /\ indexData[i].loadedFile = results[k].filepath
                          /\ indexData[i].expiry = results[k].expiry
                          /\ Selection(indexData[i]) = Selection(before[i])
                  ELSE indexData[i] = before[i]

\* The answer reported success for Nifty and Sensex and failure for
\* BankNifty: the first two records hold the fetched snapshot, the third
\* reports no data.
C40_Witness ==
    /\ last.op = "fetchAll" /\ last.ok
    /\ indexData["Nifty"].hasData /\ indexData["Nifty"].loadedFile = "live"
    /\ indexData["Sensex"].hasData /\ indexData["Sensex"].expiry = "2024-02-08"
    /\ ~indexData["BankNifty"].hasData

\* hasData, loadedFile and expiry of the record of index i
LoadedSnapshot(data, i) == <<data[i].hasData, data[i].loadedFile, data[i].expiry>>

\* C38 as stated: a catalog refresh, successful or not, leaves hasData,
\* loadedFile and expiry of every index as they were, and a step that changes
\* one of the three is the status sync of init or the completion of a
\* successful load-snapshot request of the topbar.
C38_OnlyStatusAndLoadWrite ==
    [][ /\ last'.op = "refresh" =>
              \A i \in IndexSet :
                  LoadedSnapshot(indexData', i) = LoadedSnapshot(indexData, i)
        /\ (\E i \in IndexSet :
                  LoadedSnapshot(indexData', i) # LoadedSnapshot(indexData, i))
              => \/ last'.op = "status" /\ last'.ok
                 \/ last'.op = "load" /\ last'.ok ]_vars

\* C38, amended: a catalog refresh, successful or not, leaves hasData,
\* loadedFile and expiry of every index as they were; a step that changes one
\* of the three is the status sync of init, the completion of a successful
\* load-snapshot request (of the topbar or of the load form of the Data
\* Management page) or the completion of a successful fetch-all request, and
\* the status sync leaves every expiry as it was.
C38_SnapshotFieldsWriters ==
    [][ /\ last'.op = "refresh" =>
              \A i \in IndexSet :
                  LoadedSnapshot(indexData', i) = LoadedSnapshot(indexData, i)
        /\ (\E i \in IndexSet :
                  LoadedSnapshot(indexData', i) # LoadedSnapshot(indexData, i))
              => /\ last'.ok
                 /\ last'.op \in {"status", "load", "formLoad", "fetchAll"}
        /\ last'.op = "status" =>
              \A i \in IndexSet : indexData'[i].expiry = indexData[i].expiry ]_vars

\* A successful refresh has written the selection of an index whose snapshot
\* is loaded, and the three fields are the ones it found.
C38_Witness ==
    /\ last.op = "refresh" /\ last.ok
    /\ indexData[last.index] # last.prev
    /\ last.prev.hasData /\ last.prev.loadedFile # "" /\ last.prev.expiry # ""
    /\ indexData[last.index].hasData
    /\ indexData[last.index].loadedFile = last.prev.loadedFile
    /\ indexData[last.index].expiry = last.prev.expiry

NavClicks == {"bucketClick", "categoryClick", "subChartClick", "modeClick"}

\* C39: a bucket, category, subchart or mode transition leaves selectedIndex,
\* compareMode and the record of every index as they were; of the navigation
\* keys a subchart transition changes selectedSubChart alone and a mode
\* transition gammaChartMode alone, and both request a pass with the new
\* value.
C39_NavigationFrame ==
    [][ /\ last'.op \in NavClicks =>
              /\ selectedIndex' = selectedIndex
              /\ compareMode' = compareMode
              /\ indexData' = indexData
        /\ last'.op = "subChartClick" =>
              /\ UNCHANGED <<selectedBucket, selectedCategory, gammaChartMode>>
              /\ tasks'[Len(tasks')].kind = "render"
              /\ tasks'[Len(tasks')].subChart = selectedSubChart'
        /\ last'.op = "modeClick" =>
              /\ UNCHANGED <<selectedBucket, selectedCategory, selectedSubChart>>
              /\ tasks'[Len(tasks')].kind = "render"
              /\ tasks'[Len(tasks')].mode = gammaChartMode' ]_vars

\* A mode transition has set the mode to raw while a chart other than the
\* first of its category is selected.
C39_Witness ==
    /\ last.op = "modeClick"
    /\ gammaChartMode = "raw"
    /\ selectedSubChart # FirstSub(selectedBucket, selectedCategory)
    /\ indexData["Nifty"].selectedExpiry # ""

====
